---- MODULE Spec2Model ----
(***************************************************************************)
(* Lottie colour editor: colour extraction, grouping and path-addressed    *)
(* mutation (utils/lottieColorExtractor.ts, utils/colorConverter.ts) and   *)
(* the editing hooks built on them (hooks/useLottieColors.ts,              *)
(* hooks/useLottieColorGroups.ts, hooks/useLottieFile.ts).                 *)
(*                                                                         *)
(* JavaScript objects and arrays have identity and are mutated in place,   *)
(* so documents live in a heap: a sequence of containers addressed by      *)
(* their index.  A slot of a container holds a primitive or a reference.   *)
(* Numbers are fixed-point: the integer n stands for n / Unit, which is    *)
(* exact for every k/255 and for every multiple of 0.001.                  *)
(***************************************************************************)
EXTENDS Integers, Sequences, FiniteSets, TLC

VARIABLES
    heap,   \* the containers allocated so far, by address
    call,   \* the last call made: its arguments and its outcome
    app     \* the state an editing hook keeps between calls

\* ------------------------------------------------------------------------
\* Numbers
\* ------------------------------------------------------------------------

\* n stands for the JavaScript number n / Unit
Unit == 255 * 1000

Abs(x) == IF x < 0 THEN -x ELSE x

\* Math.round(c * 255) for the number c = n / Unit  (ties round up)
Round255(n) == (2 * n + 1000) \div 2000

\* ------------------------------------------------------------------------
\* Colour conversion (utils/colorConverter.ts)
\* ------------------------------------------------------------------------

Max3(a, b, c) == IF a >= b /\ a >= c THEN a ELSE IF b >= c THEN b ELSE c
Min3(a, b, c) == IF a <= b /\ a <= c THEN a ELSE IF b <= c THEN b ELSE c

\* Math.round(x) for the quotient x = n / d of integers, d > 0, as computed
\* in floating point: the nearest integer; where n / d is exactly halfway
\* between two integers the computed quotient may fall on either side
RoundQuotient(n, d) ==
    IF (2 * n) % (2 * d) = d THEN {(n - (n % d)) \div d, (n - (n % d)) \div d + 1}
    ELSE {(2 * n + d) \div (2 * d)}

\* HueTimes without the turn added when g < b
HueTimesNoTurn(r, g, b, max, d) ==
    IF max = r THEN 60 * (g - b)
    ELSE IF max = g THEN 60 * (b - r) + 120 * d
    ELSE 60 * (r - g) + 240 * d

\* h * 360 times d, for d = max - min > 0 (channels as 8-bit integers):
\* the cases of switch (max), the first that matches
HueTimes(r, g, b, max, d) ==
    IF max = r THEN 60 * (g - b) + (IF g < b THEN 360 * d ELSE 0)
    ELSE IF max = g THEN 60 * (b - r) + 120 * d
    ELSE 60 * (r - g) + 240 * d

\* s = l > 0.5 ? d / (2 - max - min) : d / (max + min), as numerator and
\* denominator
SaturationOver(max, min) == IF max + min > 255 THEN 510 - max - min ELSE max + min

\* the results of rgbToHsl for the channels' maximum and minimum
HslOf(rgb, max, min) ==
    IF max = min
    THEN {[h |-> 0, s |-> 0, l |-> ll, a |-> rgb.a] : ll \in RoundQuotient(100 * (max + min), 510)}
    ELSE {[h |-> hh, s |-> ss, l |-> ll, a |-> rgb.a] :
             hh \in RoundQuotient(HueTimes(rgb.r, rgb.g, rgb.b, max, max - min), max - min),
             ss \in RoundQuotient(100 * (max - min), SaturationOver(max, min)),
             ll \in RoundQuotient(100 * (max + min), 510)}

\* rgbToHsl
rgbToHsl(rgb) ==
    HslOf(rgb, Max3(rgb.r, rgb.g, rgb.b), Min3(rgb.r, rgb.g, rgb.b))

\* hslToRgb works on h / 360, s / 100 and l / 100 for integers h, s and l:
\* q and p = 2 * l - q are kept times 10000, t times 360 and the value of
\* hue2rgb times 600000

\* q = l < 0.5 ? l * (1 + s) : l + s - l * s
QTimes(s, l) == IF l < 50 THEN l * (100 + s) ELSE 100 * l + 100 * s - l * s

\* if (t < 0) t += 1; if (t > 1) t -= 1
TurnedInto(t) == IF t < 0 THEN t + 360 ELSE IF t > 360 THEN t - 360 ELSE t

\* the four returns of hue2rgb, for t already turned into 0..1
Hue2RgbOf(p, q, t) ==
    IF t < 60 THEN 60 * p + (q - p) * t
    ELSE IF t < 180 THEN 60 * q
    ELSE IF t < 240 THEN 60 * p + (q - p) * (240 - t)
    ELSE 60 * p

\* hue2rgb
hue2rgb(p, q, t) == Hue2RgbOf(p, q, TurnedInto(t))

\* Math.round(hue2rgb(p, q, t) * 255)
ChannelOf(p, q, t) == RoundQuotient(255 * hue2rgb(p, q, t), 600000)

\* the results of hslToRgb for a colour with s > 0
RgbOf(hsl, p, q) ==
    {[r |-> rr, g |-> gg, b |-> bb, a |-> hsl.a] :
        rr \in ChannelOf(p, q, hsl.h + 120),
        gg \in ChannelOf(p, q, hsl.h),
        bb \in ChannelOf(p, q, hsl.h - 120)}

\* hslToRgb
hslToRgb(hsl) ==
    IF hsl.s = 0
    THEN {[r |-> v, g |-> v, b |-> v, a |-> hsl.a] : v \in RoundQuotient(255 * hsl.l, 100)}
    ELSE RgbOf(hsl, 200 * hsl.l - QTimes(hsl.s, hsl.l), QTimes(hsl.s, hsl.l))

\* ------------------------------------------------------------------------
\* Values: what a slot, a local variable or a return value can hold
\* ------------------------------------------------------------------------

Undef == [t |-> "undef", n |-> 0, s |-> <<>>]
Null == [t |-> "null", n |-> 0, s |-> <<>>]
Num(n) == [t |-> "num", n |-> n, s |-> <<>>]
Whole(i) == Num(i * Unit)
\* a string is the sequence of its characters
Str(chars) == [t |-> "str", n |-> 0, s |-> chars]
Ref(a) == [t |-> "ref", n |-> a, s |-> <<>>]

IsRef(v) == v.t = "ref"

\* A container: an object has keyed properties (kids, in insertion order);
\* an array has elements (elems) and, possibly, keyed properties of its own.
Obj(kids) == [t |-> "obj", kids |-> kids, elems |-> <<>>]
Arr(elems) == [t |-> "arr", kids |-> <<>>, elems |-> elems]

\* ------------------------------------------------------------------------
\* JSON text, as the tree it denotes
\* ------------------------------------------------------------------------

\* A tree carries the number of containers it denotes (size)
RECURSIVE SumSizes(_, _)
SumSizes(trees, upto) ==
    IF upto = 0 THEN 0 ELSE trees[upto].size + SumSizes(trees, upto - 1)

JNull == [t |-> "null", n |-> 0, s |-> <<>>, kids |-> <<>>, elems |-> <<>>, size |-> 0]
JNum(n) == [t |-> "num", n |-> n, s |-> <<>>, kids |-> <<>>, elems |-> <<>>, size |-> 0]
JInt(i) == JNum(i * Unit)
JStr(chars) == [t |-> "str", n |-> 0, s |-> chars, kids |-> <<>>, elems |-> <<>>, size |-> 0]
JArr(elems) ==
    [t |-> "arr", n |-> 0, s |-> <<>>, kids |-> <<>>, elems |-> elems,
     size |-> 1 + SumSizes(elems, Len(elems))]
JObj(kids) ==
    [t |-> "obj", n |-> 0, s |-> <<>>, kids |-> kids, elems |-> <<>>,
     size |-> 1 + SumSizes([i \in 1..Len(kids) |-> kids[i].v], Len(kids))]
KV(k, v) == [k |-> k, v |-> v]

JIsContainer(j) == j.t \in {"arr", "obj"}

\* The children of a container tree, properties first, in document order
JChildren(j) == [i \in 1..Len(j.kids) |-> j.kids[i].v] \o j.elems

\* The value of tree j when its containers are built from address first on
JValue(j, first) == IF JIsContainer(j) THEN Ref(first) ELSE [t |-> j.t, n |-> j.n, s |-> j.s]

\* JSON.parse builds the containers of a tree in document order: the n-th
\* container of tree j, when j itself is built at address first
RECURSIVE ParsedCell(_, _, _)
ParsedCell(j, n, first) ==
    LET ch == JChildren(j)
        at(i) == first + 1 + SumSizes(ch, i - 1)
    IN IF n = 1
       THEN [t |-> j.t,
             kids |-> [i \in 1..Len(j.kids) |-> KV(j.kids[i].k, JValue(ch[i], at(i)))],
             elems |-> [i \in 1..Len(j.elems) |->
                           JValue(j.elems[i], at(Len(j.kids) + i))]]
       ELSE LET c == CHOOSE i \in 1..Len(ch) :
                        at(i) - first < n /\ n <= at(i) - first + ch[i].size
            IN ParsedCell(ch[c], n - (at(c) - first), at(c))

\* JSON.parse: builds fresh containers for the tree j on top of heap h.
\* Returns the heap and the value denoting j.
ParseInto(j, h) ==
    [h |-> h \o [n \in 1..j.size |-> ParsedCell(j, n, Len(h) + 1)],
     v |-> JValue(j, Len(h) + 1)]

\* JSON.stringify: the tree of the value v in heap h.  A property holding
\* undefined is left out of an object; an array element holding undefined
\* is written null; keyed properties of an array are not written.
RECURSIVE Stringify(_, _)
IsDefined(kid) == kid.v.t # "undef"
Stringify(h, v) ==
    IF v.t = "undef" THEN JNull
    ELSE IF ~IsRef(v) THEN
        [t |-> v.t, n |-> v.n, s |-> v.s, kids |-> <<>>, elems |-> <<>>, size |-> 0]
    ELSE LET c == h[v.n]
             keep == SelectSeq(c.kids, IsDefined)
         IN IF c.t = "arr"
            THEN JArr([i \in 1..Len(c.elems) |-> Stringify(h, c.elems[i])])
            ELSE JObj([i \in 1..Len(keep) |-> KV(keep[i].k, Stringify(h, keep[i].v))])

\* JSON.parse(JSON.stringify(v)): a deep copy of v in fresh containers
DeepClone(h, v) == ParseInto(Stringify(h, v), h)

\* The containers reachable from value v in heap h
RECURSIVE ReachFrom(_, _, _)
SlotRefs(c) ==
    {c.kids[i].v.n : i \in {x \in 1..Len(c.kids) : IsRef(c.kids[x].v)}}
      \cup {c.elems[i].n : i \in {x \in 1..Len(c.elems) : IsRef(c.elems[x])}}
ReachFrom(h, frontier, seen) ==
    IF frontier \subseteq seen THEN seen
    ELSE LET new == frontier \ seen
         IN ReachFrom(h, UNION {SlotRefs(h[a]) : a \in new}, seen \cup new)
Reach(h, v) == IF IsRef(v) THEN ReachFrom(h, {v.n}, {}) ELSE {}

\* ------------------------------------------------------------------------
\* Property access
\* ------------------------------------------------------------------------

\* A path segment: a field name or an integer index
Key(k) == [t |-> "key", k |-> k, i |-> 0]
Idx(i) == [t |-> "idx", k |-> "", i |-> i]

Digits == <<"0", "1", "2", "3", "4", "5", "6", "7", "8", "9">>
\* String(i), the property name an index is converted to on an object
IdxKey(i) == Digits[i + 1]

KidPos(kids, k) == {i \in 1..Len(kids) : kids[i].k = k}
KidGet(kids, k) ==
    IF KidPos(kids, k) = {} THEN Undef ELSE kids[CHOOSE i \in KidPos(kids, k) : TRUE].v
KidSet(kids, k, v) ==
    IF KidPos(kids, k) = {} THEN Append(kids, KV(k, v))
    ELSE [i \in 1..Len(kids) |-> IF kids[i].k = k THEN KV(k, v) ELSE kids[i]]

\* cur[seg] for a cur that is neither null nor undefined
GetProp(h, cur, seg) ==
    IF IsRef(cur) THEN
        LET c == h[cur.n]
        IN IF seg.t = "idx" /\ c.t = "arr"
           THEN IF seg.i >= 0 /\ seg.i < Len(c.elems) THEN c.elems[seg.i + 1] ELSE Undef
           ELSE KidGet(c.kids, IF seg.t = "idx" THEN IdxKey(seg.i) ELSE seg.k)
    ELSE IF cur.t = "str" /\ seg.t = "idx" /\ seg.i >= 0 /\ seg.i < Len(cur.s)
    THEN Str(<<cur.s[seg.i + 1]>>)
    ELSE Undef

\* cur[seg] = v for a cur that is a container
SetProp(h, a, seg, v) ==
    LET c == h[a]
    IN IF seg.t = "idx" /\ c.t = "arr" /\ seg.i >= 0
       THEN [h EXCEPT ![a].elems =
                [i \in 1..(IF seg.i + 1 > Len(c.elems) THEN seg.i + 1 ELSE Len(c.elems)) |->
                    IF i = seg.i + 1 THEN v
                    ELSE IF i <= Len(c.elems) THEN c.elems[i] ELSE Undef]]
       ELSE [h EXCEPT ![a].kids =
                KidSet(c.kids, IF seg.t = "idx" THEN IdxKey(seg.i) ELSE seg.k, v)]

\* ------------------------------------------------------------------------
\* Mutation applicator (utils/lottieColorExtractor.ts)
\* ------------------------------------------------------------------------

HexDigits == <<"0", "1", "2", "3", "4", "5", "6", "7", "8", "9",
               "a", "b", "c", "d", "e", "f">>

\* n.toString(16) for an integer n >= 0
RECURSIVE ToString16(_)
ToString16(n) ==
    IF n < 16 THEN <<HexDigits[n + 1]>>
    ELSE ToString16(n \div 16) \o <<HexDigits[(n % 16) + 1]>>

\* s.padStart(2, '0')
PadStart2(s) == IF Len(s) >= 2 THEN s ELSE IF Len(s) = 1 THEN <<"0">> \o s ELSE <<"0", "0">>

\* Math.round(newColor[i] * 255).toString(16).padStart(2, '0');
\* a component that is not a number gives NaN
HexByte(v) ==
    IF v.t = "num" /\ v.n >= 0 THEN PadStart2(ToString16(Round255(v.n)))
    ELSE <<"N", "a", "N">>
HexComponent(h, newColor, i) == HexByte(GetProp(h, newColor, Idx(i)))

\* `#${r}${g}${b}`
SolidHex(h, newColor) ==
    Str(<<"#">> \o HexComponent(h, newColor, 0) \o HexComponent(h, newColor, 1)
               \o HexComponent(h, newColor, 2))

\* WrittenValue without the solid-layer branch
WrittenValueRaw(h, lastKey, newColor) == newColor

\* The value stored at the last segment
WrittenValue(h, lastKey, newColor) ==
    IF lastKey = Key("sc") THEN SolidHex(h, newColor) ELSE newColor

\* WalkPath stopping one segment early
RECURSIVE WalkPathShort(_, _, _, _)
WalkPathShort(h, cur, path, i) ==
    IF i > 1 /\ cur.t = "undef" THEN [st |-> "warn", cur |-> cur]
    ELSE IF i > Len(path) - 2 THEN [st |-> "ok", cur |-> cur]
    ELSE IF cur.t \in {"null", "undef"} THEN [st |-> "throw", cur |-> cur]
    ELSE WalkPathShort(h, GetProp(h, cur, path[i]), path, i + 1)

\* The loop over all but the last segment, entered for segment i with the
\* value cur reached so far.  An undefined value read for a segment ends
\* the call with a warning; indexing null (or an undefined document) throws
\* a TypeError.
RECURSIVE WalkPath(_, _, _, _)
WalkPath(h, cur, path, i) ==
    IF i > 1 /\ cur.t = "undef" THEN [st |-> "warn", cur |-> cur]
    ELSE IF i > Len(path) - 1 THEN [st |-> "ok", cur |-> cur]
    ELSE IF cur.t \in {"null", "undef"} THEN [st |-> "throw", cur |-> cur]
    ELSE WalkPath(h, GetProp(h, cur, path[i]), path, i + 1)

\* The assignment at the last segment, after the walk w.  The module is
\* strict-mode code: assigning a property of null or of a primitive throws
\* a TypeError.
AssignLast(h, w, lastKey, newColor) ==
    IF w.st = "throw" THEN [h |-> h, threw |-> TRUE, warned |-> FALSE]
    ELSE IF w.st = "warn" THEN [h |-> h, threw |-> FALSE, warned |-> TRUE]
    ELSE IF ~IsRef(w.cur) THEN [h |-> h, threw |-> TRUE, warned |-> FALSE]
    ELSE [h |-> SetProp(h, w.cur.n, lastKey, WrittenValue(h, lastKey, newColor)),
          threw |-> FALSE, warned |-> FALSE]

\* applyColorToLottieMutable
applyColorToLottieMutable(h, lottieJson, path, newColor) ==
    AssignLast(h, WalkPath(h, lottieJson, path, 1), path[Len(path)], newColor)

\* The two nested loops of applyColorsToLottie, from change ci, target ti;
\* AfterTarget goes on from the outcome r of one target
RECURSIVE ApplyLoop(_, _, _, _, _, _)
RECURSIVE AfterTarget(_, _, _, _, _, _)
AfterTarget(r, result, changes, ci, ti, warned) ==
    IF r.threw THEN [h |-> r.h, threw |-> TRUE, warned |-> warned]
    ELSE ApplyLoop(r.h, result, changes, ci, ti + 1, warned + (IF r.warned THEN 1 ELSE 0))
ApplyLoop(h, result, changes, ci, ti, warned) ==
    IF ci > Len(changes) THEN [h |-> h, threw |-> FALSE, warned |-> warned]
    ELSE IF ti > Len(changes[ci].targets) THEN ApplyLoop(h, result, changes, ci + 1, 1, warned)
    ELSE AfterTarget(applyColorToLottieMutable(h, result, changes[ci].targets[ti].path,
                                               changes[ci].newColor),
                     result, changes, ci, ti, warned)

\* ResultCopy without the copy: the input itself is worked on
ResultCopyShared(h, lottieJson) == [h |-> h, v |-> lottieJson]

\* The copy applyColorsToLottie works on
ResultCopy(h, lottieJson) == DeepClone(h, lottieJson)

\* applyColorsToLottie returning its input when there is nothing to apply
applyColorsToLottieShortcut(h, lottieJson, colorChanges) ==
    IF colorChanges = <<>>
    THEN [h |-> h, out |-> lottieJson, threw |-> FALSE, warned |-> 0]
    ELSE LET c == ResultCopy(h, lottieJson)
             r == ApplyLoop(c.h, c.v, colorChanges, 1, 1, 0)
         IN [h |-> r.h, out |-> IF r.threw THEN Undef ELSE c.v,
             threw |-> r.threw, warned |-> r.warned]

\* What a call of applyColorsToLottie gives: the heap after it, the value
\* returned (when no exception escaped) and the number of warnings
ReturnCopy(result, r) ==
    [h |-> r.h, out |-> IF r.threw THEN Undef ELSE result,
     threw |-> r.threw, warned |-> r.warned]
\* applyColorsToLottie taking the changes last to first
applyColorsToLottieReversed(h, lottieJson, colorChanges) ==
    LET c == ResultCopy(h, lottieJson)
        r == ApplyLoop(c.h, c.v,
                       [i \in 1..Len(colorChanges) |->
                           colorChanges[Len(colorChanges) + 1 - i]], 1, 1, 0)
    IN [h |-> r.h, out |-> IF r.threw THEN Undef ELSE c.v,
        threw |-> r.threw, warned |-> r.warned]

\* the loops run on the copy c
ApplyToCopy(c, colorChanges) == ReturnCopy(c.v, ApplyLoop(c.h, c.v, colorChanges, 1, 1, 0))
\* applyColorsToLottie: the input is copied, the loops run on the copy
applyColorsToLottie(h, lottieJson, colorChanges) ==
    ApplyToCopy(ResultCopy(h, lottieJson), colorChanges)

\* What a call of applyColorToLottie gives
ReturnOneCopy(result, r) ==
    [h |-> r.h, out |-> IF r.threw THEN Undef ELSE result,
     threw |-> r.threw, warned |-> IF r.warned THEN 1 ELSE 0]
ApplyOneToCopy(c, path, newColor) ==
    ReturnOneCopy(c.v, applyColorToLottieMutable(c.h, c.v, path, newColor))
\* applyColorToLottie: a copy per call
applyColorToLottie(h, lottieJson, path, newColor) ==
    ApplyOneToCopy(DeepClone(h, lottieJson), path, newColor)

\* ------------------------------------------------------------------------
\* Colour scanner (utils/lottieColorExtractor.ts)
\* ------------------------------------------------------------------------

\* Array.isArray(v)
IsArray(h, v) == IsRef(v) /\ h[v.n].t = "arr"

\* JavaScript truthiness of v
Truthy(v) ==
    CASE v.t = "ref" -> TRUE
      [] v.t = "num" -> v.n # 0
      [] v.t = "str" -> v.s # <<>>
      [] v.t = "bool" -> v.n # 0
      [] OTHER -> FALSE

\* isColorArray: an array of 3 or 4 numbers, each in [0, 1]
isColorArray(h, arr) ==
    /\ IsArray(h, arr)
    /\ Len(h[arr.n].elems) >= 3
    /\ Len(h[arr.n].elems) <= 4
    /\ \A i \in 1..Len(h[arr.n].elems) :
          LET v == h[arr.n].elems[i] IN v.t = "num" /\ v.n >= 0 /\ v.n <= Unit

\* isStaticColor without the test of a
isStaticColorAnyA(h, colorProperty) ==
    /\ IsRef(colorProperty)
    /\ isColorArray(h, GetProp(h, colorProperty, Key("k")))

\* isStaticColor: an object whose a is 0 and whose k is a colour array
isStaticColor(h, colorProperty) ==
    /\ IsRef(colorProperty)
    /\ GetProp(h, colorProperty, Key("a")) = Num(0)
    /\ isColorArray(h, GetProp(h, colorProperty, Key("k")))

\* [...shape.c.k]: the numbers of a colour array
SpreadColor(h, arr) == [i \in 1..Len(h[arr.n].elems) |-> h[arr.n].elems[i].n]

\* layer.nm || `Layer ${index}`,  shape.nm || `Shape ${index}`
NameOr(h, node, prefix, index) ==
    LET nm == GetProp(h, node, Key("nm"))
    IN IF Truthy(nm) THEN nm ELSE Str(prefix \o <<" ", IdxKey(index)>>)

Extracted(path, color, type, layerName, shapeName) ==
    [path |-> path, color |-> color, type |-> type,
     layerName |-> layerName, shapeName |-> shapeName]

\* extractColorsFromShapes: the occurrences of shapes[from..], in order
RECURSIVE extractColorsFromShapes(_, _, _, _)
RECURSIVE ShapesFrom(_, _, _, _, _)
\* ShapeCase without the descent into groups
ShapeCaseNoDescent(h, ty, c, it, currentPath, layerName, shapeName) ==
    IF ty = Str(<<"g", "r">>) /\ IsArray(h, it)
    THEN <<>>
    ELSE IF ty \in {Str(<<"f", "l">>), Str(<<"s", "t">>)} /\ Truthy(c) /\ isStaticColor(h, c)
    THEN <<Extracted(currentPath \o <<Key("c"), Key("k")>>,
                     SpreadColor(h, GetProp(h, c, Key("k"))),
                     IF ty = Str(<<"f", "l">>) THEN "fill" ELSE "stroke",
                     layerName, shapeName)>>
    ELSE <<>>

\* the forEach callback on a shape with fields ty, c and it: a group is
\* descended into, a fill or stroke with a static colour yields an occurrence
ShapeCase(h, ty, c, it, currentPath, layerName, shapeName) ==
    IF ty = Str(<<"g", "r">>) /\ IsArray(h, it)
    THEN extractColorsFromShapes(h, it, Append(currentPath, Key("it")), layerName)
    ELSE IF ty \in {Str(<<"f", "l">>), Str(<<"s", "t">>)} /\ Truthy(c) /\ isStaticColor(h, c)
    THEN <<Extracted(currentPath \o <<Key("c"), Key("k")>>,
                     SpreadColor(h, GetProp(h, c, Key("k"))),
                     IF ty = Str(<<"f", "l">>) THEN "fill" ELSE "stroke",
                     layerName, shapeName)>>
    ELSE <<>>
ShapeColors(h, shape, shapeIndex, path, layerName) ==
    IF ~IsRef(shape) THEN <<>>
    ELSE ShapeCase(h, GetProp(h, shape, Key("ty")), GetProp(h, shape, Key("c")),
                   GetProp(h, shape, Key("it")), Append(path, Idx(shapeIndex)), layerName,
                   NameOr(h, shape, <<"S", "h", "a", "p", "e">>, shapeIndex))
ShapesFrom(h, elems, i, path, layerName) ==
    IF i > Len(elems) THEN <<>>
    ELSE ShapeColors(h, elems[i], i - 1, path, layerName)
            \o ShapesFrom(h, elems, i + 1, path, layerName)
extractColorsFromShapes(h, shapes, path, layerName) ==
    IF ~IsArray(h, shapes) THEN <<>>
    ELSE ShapesFrom(h, h[shapes.n].elems, 1, path, layerName)

\* The value of a hexadecimal digit, in either case; -1 for any other character
HexValue(ch) ==
    CASE ch \in {"0"} -> 0 [] ch \in {"1"} -> 1 [] ch \in {"2"} -> 2 [] ch \in {"3"} -> 3
      [] ch \in {"4"} -> 4 [] ch \in {"5"} -> 5 [] ch \in {"6"} -> 6 [] ch \in {"7"} -> 7
      [] ch \in {"8"} -> 8 [] ch \in {"9"} -> 9
      [] ch \in {"a", "A"} -> 10 [] ch \in {"b", "B"} -> 11 [] ch \in {"c", "C"} -> 12
      [] ch \in {"d", "D"} -> 13 [] ch \in {"e", "E"} -> 14 [] ch \in {"f", "F"} -> 15
      [] OTHER -> -1

\* HexMatch with the leading '#' required
HexMatchHash(chars) ==
    IF Len(chars) = 7 /\ chars[1] = "#" /\ \A i \in 2..7 : HexValue(chars[i]) >= 0
    THEN Tail(chars) ELSE <<>>

\* /^#?([a-f\d]{2})([a-f\d]{2})([a-f\d]{2})$/i : the six digits matched,
\* or the empty sequence when the string does not match
HexMatch(chars) ==
    LET body == IF Len(chars) > 0 /\ chars[1] = "#" THEN Tail(chars) ELSE chars
    IN IF Len(body) = 6 /\ \A i \in 1..6 : HexValue(body[i]) >= 0 THEN body ELSE <<>>

\* parseInt(pair, 16) / 255
HexPair(body, i) == (16 * HexValue(body[i]) + HexValue(body[i + 1])) * 1000

\* [parseInt(hexMatch[1], 16) / 255, ..., 1]: the colour of a solid layer
SolidColor(hexMatch) ==
    <<HexPair(hexMatch, 1), HexPair(hexMatch, 3), HexPair(hexMatch, 5), Unit>>

\* rgbToHex without padStart
rgbToHexUnpadded(rgb) ==
    <<"#">> \o ToString16(rgb.r) \o ToString16(rgb.g) \o ToString16(rgb.b)

\* rgbToHex: `#${toHex(rgb.r)}${toHex(rgb.g)}${toHex(rgb.b)}` with
\* toHex(n) = n.toString(16).padStart(2, '0')
rgbToHex(rgb) ==
    <<"#">> \o PadStart2(ToString16(rgb.r)) \o PadStart2(ToString16(rgb.g))
           \o PadStart2(ToString16(rgb.b))

\* parseInt(result[i], 16) for the pair of digits that starts at i
ParseInt16(body, i) == 16 * HexValue(body[i]) + HexValue(body[i + 1])

\* hexToRgb: the colour, or the empty sequence when it throws
\* (Invalid hex color)
hexToRgb(hex) ==
    IF HexMatch(hex) = <<>> THEN <<>>
    ELSE <<[r |-> ParseInt16(HexMatch(hex), 1), g |-> ParseInt16(HexMatch(hex), 3),
            b |-> ParseInt16(HexMatch(hex), 5), a |-> Undef]>>

\* the two cases of a layer with fields ty, sc and shapes
LayerCase(h, ty, sc, shapes, layerPath, layerName) ==
    (IF ty = Whole(1) /\ sc.t = "str" /\ HexMatch(sc.s) # <<>>
     THEN <<Extracted(Append(layerPath, Key("sc")), SolidColor(HexMatch(sc.s)),
                      "solid", layerName, Undef)>>
     ELSE <<>>)
    \o
    (IF ty = Whole(4) /\ IsArray(h, shapes)
     THEN extractColorsFromShapes(h, shapes, Append(layerPath, Key("shapes")), layerName)
     ELSE <<>>)
\* extractColorsFromLayer: the occurrences of one layer, paths from 'layers'
extractColorsFromLayer(h, layer, layerIndex) ==
    IF ~IsRef(layer) THEN <<>>
    ELSE LayerCase(h, GetProp(h, layer, Key("ty")), GetProp(h, layer, Key("sc")),
                   GetProp(h, layer, Key("shapes")), <<Key("layers"), Idx(layerIndex)>>,
                   NameOr(h, layer, <<"L", "a", "y", "e", "r">>, layerIndex))

\* Prefixed leaving the paths as they are
PrefixedNot(cs, prefix) == cs

\* the occurrences cs with prefix put before their paths
Prefixed(cs, prefix) == [k \in 1..Len(cs) |-> [cs[k] EXCEPT !.path = prefix \o cs[k].path]]
\* layers.forEach: the occurrences of the layers elems[i..], in order
RECURSIVE LayersFrom(_, _, _, _)
LayersFrom(h, elems, i, prefix) ==
    IF i > Len(elems) THEN <<>>
    ELSE Prefixed(extractColorsFromLayer(h, elems[i], i - 1), prefix)
            \o LayersFrom(h, elems, i + 1, prefix)

\* occurrences followed by the outcome of the rest of a scan
ScanJoin(colors, rest) == [threw |-> rest.threw, colors |-> colors \o rest.colors]
\* the layers ls of the asset at assetIndex
AssetLayers(h, ls, assetIndex) ==
    IF IsArray(h, ls) THEN LayersFrom(h, h[ls.n].elems, 1, <<Key("assets"), Idx(assetIndex)>>)
    ELSE <<>>
\* The assets loop: asset.layers of a null asset throws a TypeError
RECURSIVE AssetsFrom(_, _, _)
AssetsFrom(h, elems, i) ==
    IF i > Len(elems) THEN [threw |-> FALSE, colors |-> <<>>]
    ELSE IF elems[i].t \in {"null", "undef"} THEN [threw |-> TRUE, colors |-> <<>>]
    ELSE ScanJoin(AssetLayers(h, GetProp(h, elems[i], Key("layers")), i - 1),
                  AssetsFrom(h, elems, i + 1))

\* the main layers, then the layers of the assets
MainLayers(h, layers) ==
    IF IsArray(h, layers) THEN LayersFrom(h, h[layers.n].elems, 1, <<>>) ELSE <<>>
AssetsOf(h, assets) ==
    IF IsArray(h, assets) THEN AssetsFrom(h, h[assets.n].elems, 1)
    ELSE [threw |-> FALSE, colors |-> <<>>]
\* The scan shared by extractColorsFromLottie and extractColorGroupsFromLottie:
\* the raw occurrences, in document order
RawColors(h, lottieJson) ==
    IF ~IsRef(lottieJson) THEN [threw |-> FALSE, colors |-> <<>>]
    ELSE ScanJoin(MainLayers(h, GetProp(h, lottieJson, Key("layers"))),
                  AssetsOf(h, GetProp(h, lottieJson, Key("assets"))))

\* ------------------------------------------------------------------------
\* Grouping (utils/lottieColorExtractor.ts, utils/colorConverter.ts)
\* ------------------------------------------------------------------------

\* v.toFixed(2), in thousandths
ToFixed2(n) == 10 * ((2 * n + 2550) \div 5100)

\* v.toFixed(3), as the number of thousandths it prints
ToFixed3(n) == (2 * n + 255) \div 510

\* colorToKey: the components to three decimals, joined by commas
colorToKey(color) == [i \in 1..Len(color) |-> ToFixed3(color[i])]

\* `${extracted.type}_${colorToKey(extracted.color)}`
GroupKey(extracted) == [type |-> extracted.type, key |-> colorToKey(extracted.color)]

TargetOf(extracted) ==
    [path |-> extracted.path, layerName |-> extracted.layerName,
     shapeName |-> extracted.shapeName]

\* The position of key k in a list of keyed entries, 0 when absent
KeyIndex(entries, k) ==
    IF \E i \in 1..Len(entries) : entries[i].key = k
    THEN CHOOSE i \in 1..Len(entries) : entries[i].key = k
    ELSE 0

\* GroupColorsFrom keeping only the first address of each key
RECURSIVE GroupColorsFromFirstOnly(_, _, _, _)
GroupColorsFromFirstOnly(extractedColors, i, groups, ids) ==
    IF i > Len(extractedColors) THEN [g \in 1..Len(groups) |-> groups[g].ent]
    ELSE LET e == extractedColors[i]
             fresh == [key |-> GroupKey(e),
                       ent |-> [id |-> ids[Len(groups) + 1], targets |-> <<TargetOf(e)>>,
                                original |-> e.color, current |-> e.color,
                                type |-> e.type]]
         IN IF \E g \in 1..Len(groups) : groups[g].key = GroupKey(e)
            THEN GroupColorsFromFirstOnly(extractedColors, i + 1, groups, ids)
            ELSE GroupColorsFromFirstOnly(extractedColors, i + 1, Append(groups, fresh), ids)

\* GroupColorsFrom looking an entity up by the id drawn as well as by key
RECURSIVE GroupColorsFromById(_, _, _, _)
GroupColorsFromById(extractedColors, i, groups, ids) ==
    IF i > Len(extractedColors) THEN [g \in 1..Len(groups) |-> groups[g].ent]
    ELSE LET e == extractedColors[i]
             byKey == KeyIndex(groups, GroupKey(e))
             byId == {g \in 1..Len(groups) : groups[g].ent.id = ids[Len(groups) + 1]}
             at == IF byKey # 0 THEN byKey
                   ELSE IF byId # {} THEN CHOOSE g \in byId : TRUE ELSE 0
             fresh == [key |-> GroupKey(e),
                       ent |-> [id |-> ids[Len(groups) + 1], targets |-> <<TargetOf(e)>>,
                                original |-> e.color, current |-> e.color,
                                type |-> e.type]]
         IN IF at = 0
            THEN GroupColorsFromById(extractedColors, i + 1, Append(groups, fresh), ids)
            ELSE GroupColorsFromById(extractedColors, i + 1,
                    [groups EXCEPT ![at].ent.targets = Append(@, TargetOf(e))], ids)

\* groupColors: one LottieColor per key, in order of first occurrence.
\* ids[n] is the value of the n-th call of generateId.
RECURSIVE GroupColorsFrom(_, _, _, _)
GroupColorsFrom(extractedColors, i, groups, ids) ==
    IF i > Len(extractedColors) THEN [g \in 1..Len(groups) |-> groups[g].ent]
    ELSE LET e == extractedColors[i]
             at == KeyIndex(groups, GroupKey(e))
             fresh == [key |-> GroupKey(e),
                       ent |-> [id |-> ids[Len(groups) + 1], targets |-> <<TargetOf(e)>>,
                                original |-> e.color, current |-> e.color,
                                type |-> e.type]]
         IN IF at = 0
            THEN GroupColorsFrom(extractedColors, i + 1, Append(groups, fresh), ids)
            ELSE GroupColorsFrom(extractedColors, i + 1,
                    [groups EXCEPT ![at].ent.targets = Append(@, TargetOf(e))], ids)
groupColors(extractedColors, ids) == GroupColorsFrom(extractedColors, 1, <<>>, ids)

\* Entries keyed by keys[i], each with the members list[i] of that key, in
\* order of first occurrence (the insertion order of a JavaScript object)
RECURSIVE BucketFrom(_, _, _, _)
BucketFrom(list, keys, i, buckets) ==
    IF i > Len(list) THEN buckets
    ELSE LET at == KeyIndex(buckets, keys[i])
         IN IF at = 0
            THEN BucketFrom(list, keys, i + 1,
                            Append(buckets, [key |-> keys[i], members |-> <<list[i]>>]))
            ELSE BucketFrom(list, keys, i + 1,
                            [buckets EXCEPT ![at].members = Append(@, list[i])])

\* colorTypeGroups: the occurrences by `${type}_${colorToKey(color)}`.
\* These keys begin with the type name: none is an index or an inherited name.
ByColorKey(extractedColors) ==
    BucketFrom(extractedColors,
               [i \in 1..Len(extractedColors) |-> GroupKey(extractedColors[i])], 1, <<>>)

\* Some of the names every object literal inherits from Object.prototype
\* (others: hasOwnProperty, isPrototypeOf, toLocaleString, ...)
ObjectPrototypeKeys ==
    { <<"c", "o", "n", "s", "t", "r", "u", "c", "t", "o", "r">>,
      <<"t", "o", "S", "t", "r", "i", "n", "g">>,
      <<"v", "a", "l", "u", "e", "O", "f">>,
      <<"_", "_", "p", "r", "o", "t", "o", "_", "_">> }

\* layerGroups[color.layerName] on the literal {} finds the inherited
\* property for such a name: it is truthy, so no list is stored, and the
\* following .push is not a function
InheritedName(layerName) ==
    layerName.t = "str" /\ layerName.s \in ObjectPrototypeKeys

\* A property name that is an array index: own properties with such names
\* are enumerated first, in ascending order (names of up to 9 digits)
IsIndexName(name) ==
    /\ name.t = "str"
    /\ Len(name.s) \in 1..9
    /\ \A i \in 1..Len(name.s) : \E d \in 1..10 : Digits[d] = name.s[i]
    /\ (Len(name.s) > 1 => name.s[1] # "0")
RECURSIVE NameNumber(_, _)
NameNumber(chars, i) ==
    IF i = 0 THEN 0
    ELSE 10 * NameNumber(chars, i - 1) + ((CHOOSE d \in 1..10 : Digits[d] = chars[i]) - 1)
RECURSIVE AscendingIndexNames(_, _)
AscendingIndexNames(entries, among) ==
    IF among = {} THEN <<>>
    ELSE LET m == CHOOSE i \in among : \A j \in among :
                     NameNumber(entries[i].key.s, Len(entries[i].key.s))
                        <= NameNumber(entries[j].key.s, Len(entries[j].key.s))
         IN <<entries[m]>> \o AscendingIndexNames(entries, among \ {m})
\* Object.entries of an object whose properties were inserted in this order
ObjectEntries(entries) ==
    AscendingIndexNames(entries, {i \in 1..Len(entries) : IsIndexName(entries[i].key)})
        \o SelectSeq(entries, LAMBDA e : ~IsIndexName(e.key))

\* ByLayerName keeping all occurrences in one list
ByLayerNameOne(colors) == <<[key |-> colors[1].layerName, members |-> colors]>>

\* layerGroups: the occurrences of one colour group by layerName
ByLayerName(colors) ==
    ObjectEntries(BucketFrom(colors, [i \in 1..Len(colors) |-> colors[i].layerName], 1, <<>>))

\* The LayerColors of one colour group; its ids follow the group's own id
LayerColorsFrom(layerGroups, groupId, ids, firstId) ==
    [l \in 1..Len(layerGroups) |->
        [id |-> ids[firstId + l - 1],
         layerName |-> layerGroups[l].key,
         targets |-> [t \in 1..Len(layerGroups[l].members) |->
                         TargetOf(layerGroups[l].members[t])],
         original |-> layerGroups[l].members[1].color,
         current |-> layerGroups[l].members[1].color,
         type |-> layerGroups[l].members[1].type,
         groupId |-> groupId]]
LayerColorsOf(colors, groupId, ids, firstId) ==
    LayerColorsFrom(ByLayerName(colors), groupId, ids, firstId)

\* groupColorsByLayer: one ColorGroup per key, its LayerColors by layer name
RECURSIVE ColorGroupsFrom(_, _, _, _)
RECURSIVE GroupThen(_, _, _, _, _)
\* the ColorGroup of bucket g with its LayerColors layers, then the later ones
GroupThen(colorTypeGroups, g, ids, nextId, layers) ==
    <<[id |-> ids[nextId], originalColor |-> colorTypeGroups[g].members[1].color,
       type |-> colorTypeGroups[g].members[1].type,
       layers |-> layers, isExpanded |-> FALSE]>>
        \o ColorGroupsFrom(colorTypeGroups, g + 1, ids, nextId + 1 + Len(layers))
ColorGroupsFrom(colorTypeGroups, g, ids, nextId) ==
    IF g > Len(colorTypeGroups) THEN <<>>
    ELSE GroupThen(colorTypeGroups, g, ids, nextId,
                   LayerColorsOf(colorTypeGroups[g].members, ids[nextId], ids, nextId + 1))
groupColorsByLayer(extractedColors, ids) ==
    IF \E i \in 1..Len(extractedColors) : InheritedName(extractedColors[i].layerName)
    THEN [threw |-> TRUE, groups |-> <<>>]
    ELSE [threw |-> FALSE, groups |-> ColorGroupsFrom(ByColorKey(extractedColors), 1, ids, 1)]

\* The number of generateId calls each grouping makes
FlatIdCount(extractedColors) == Len(ByColorKey(extractedColors))
RECURSIVE SumLayerBuckets(_, _)
SumLayerBuckets(buckets, g) ==
    IF g > Len(buckets) THEN 0
    ELSE 1 + Len(ByLayerName(buckets[g].members))
           + SumLayerBuckets(buckets, g + 1)
GroupIdCount(extractedColors) ==
    SumLayerBuckets(ByColorKey(extractedColors), 1)

\* the flat grouping of a scan raw, unless the scan threw
GroupedFlat(raw, ids) ==
    IF raw.threw THEN [threw |-> TRUE, colors |-> <<>>]
    ELSE [threw |-> FALSE, colors |-> groupColors(raw.colors, ids)]
\* extractColorsFromLottie: the scan, then groupColors
extractColorsFromLottie(h, lottieJson, ids) == GroupedFlat(RawColors(h, lottieJson), ids)
\* the hierarchical grouping of a scan raw, unless the scan threw
GroupedByLayer(raw, ids) ==
    IF raw.threw THEN [threw |-> TRUE, groups |-> <<>>]
    ELSE groupColorsByLayer(raw.colors, ids)
\* extractColorGroupsFromLottie: the scan, then groupColorsByLayer
extractColorGroupsFromLottie(h, lottieJson, ids) ==
    GroupedByLayer(RawColors(h, lottieJson), ids)

\* ------------------------------------------------------------------------
\* Documents and colours the checks run on
\* ------------------------------------------------------------------------

Red == <<Unit, 0, 0, Unit>>
Blue == <<0, 127500, Unit>>
Green == <<0, Unit, 0>>
\* red moved by less than the tolerance
NearRed == <<Unit - 100, 0, 0, Unit>>

JColor(color) == JArr([i \in 1..Len(color) |-> JNum(color[i])])
\* a fill or stroke shape with a colour property { a, k }
ColorShape(ty, a, color) ==
    JObj(<<KV("ty", JStr(ty)), KV("c", JObj(<<KV("a", JInt(a)), KV("k", JColor(color))>>))>>)
Fill(color) == ColorShape(<<"f", "l">>, 0, color)
Stroke(color) == ColorShape(<<"s", "t">>, 0, color)
GroupShape(items) == JObj(<<KV("ty", JStr(<<"g", "r">>)), KV("it", JArr(items))>>)
ShapeLayer(name, shapes) ==
    JObj(<<KV("ty", JInt(4)), KV("nm", JStr(name)), KV("shapes", JArr(shapes))>>)
SolidLayer(name, hex) ==
    JObj(<<KV("ty", JInt(1)), KV("nm", JStr(name)), KV("sc", JStr(hex))>>)
\* the keys isValidLottieJson requires, then the layers and what follows
Lottie(layers, more) ==
    JObj(<<KV("v", JStr(<<"5">>)), KV("fr", JInt(30)), KV("ip", JInt(0)),
           KV("op", JInt(60)), KV("layers", JArr(layers))>> \o more)

HexBF2525 == <<"#", "B", "F", "2", "5", "2", "5">>

\* a shape layer with one fill, and a solid layer
DocFillSolid == Lottie(<<ShapeLayer(<<"A">>, <<Fill(Red)>>), SolidLayer(<<"B">>, HexBF2525)>>, <<>>)
\* a stroke inside a group, and a solid layer inside a precomposition asset
DocNested ==
    Lottie(<<ShapeLayer(<<"A">>, <<GroupShape(<<Stroke(Blue)>>)>>)>>,
           <<KV("assets", JArr(<<JObj(<<KV("layers",
                JArr(<<SolidLayer(<<"B">>, <<"0", "0", "f", "f", "0", "0">>)>>))>>)>>))>>)
\* a document with a null layer before a shape layer
DocNullLayer == Lottie(<<JNull, ShapeLayer(<<"A">>, <<Fill(Red)>>)>>, <<>>)

\* the same fill colour in two layers
DocTwoLayers ==
    Lottie(<<ShapeLayer(<<"A">>, <<Fill(Red)>>), ShapeLayer(<<"B">>, <<Fill(Red)>>)>>, <<>>)
\* no colour at all
DocEmpty == Lottie(<<>>, <<>>)
\* two layers of one name, colours that print alike, and a second kind
DocSameName ==
    Lottie(<<ShapeLayer(<<"A">>, <<Fill(Red), Stroke(Blue)>>),
             ShapeLayer(<<"B">>, <<Fill(NearRed)>>),
             ShapeLayer(<<"A">>, <<Fill(Red)>>)>>, <<>>)
\* layers named by numbers
DocNumberNames ==
    Lottie(<<ShapeLayer(<<"2">>, <<Fill(Red)>>), ShapeLayer(<<"1", "0">>, <<Fill(Red)>>),
             ShapeLayer(<<"x">>, <<Fill(Red)>>), ShapeLayer(<<"1">>, <<Fill(Red)>>)>>, <<>>)
\* a layer named like an inherited property
DocInheritedName ==
    Lottie(<<ShapeLayer(<<"A">>, <<Fill(Red)>>),
             ShapeLayer(<<"c", "o", "n", "s", "t", "r", "u", "c", "t", "o", "r">>,
                        <<Fill(Blue)>>)>>, <<>>)

\* a colour property { a, k } and a fill with the colour property c
ColorProperty(a, k) == JObj(<<KV("a", a), KV("k", k)>>)
FillWith(c) == JObj(<<KV("ty", JStr(<<"f", "l">>)), KV("c", c)>>)
\* one static fill and one keyframed fill in one layer
DocKeyframed ==
    Lottie(<<ShapeLayer(<<"A">>, <<Fill(Red), ColorShape(<<"f", "l">>, 1, Blue)>>)>>, <<>>)
\* fills and strokes whose colour is not a static colour: k of two and of
\* five components, a component above 1, below 0, not a number; a that is
\* the string "0", no a; c null, no c; k a list of keyframes; a rectangle
\* with a static colour property; and a group of a keyframed and a static
\* stroke
DocNotColors ==
    Lottie(<<ShapeLayer(<<"A">>,
        <<FillWith(ColorProperty(JInt(0), JColor(<<Unit, 0>>))),
          FillWith(ColorProperty(JInt(0), JColor(<<0, 0, 0, Unit, Unit>>))),
          FillWith(ColorProperty(JInt(0), JColor(<<2 * Unit, 0, 0>>))),
          FillWith(ColorProperty(JInt(0), JColor(<<0, -1, 0>>))),
          FillWith(ColorProperty(JInt(0), JArr(<<JInt(1), JStr(<<"0">>), JInt(0)>>))),
          FillWith(ColorProperty(JStr(<<"0">>), JColor(Red))),
          FillWith(JObj(<<KV("k", JColor(Red))>>)),
          FillWith(JNull),
          JObj(<<KV("ty", JStr(<<"f", "l">>))>>),
          FillWith(ColorProperty(JInt(1),
              JArr(<<JObj(<<KV("t", JInt(0)), KV("s", JColor(Red))>>)>>))),
          JObj(<<KV("ty", JStr(<<"r", "c">>)), KV("c", ColorProperty(JInt(0), JColor(Red)))>>),
          GroupShape(<<ColorShape(<<"s", "t">>, 1, Blue), Stroke(Green)>>)>>)>>, <<>>)

\* fills in three layers whose first components are the two ends of the
\* numbers that print 0.500 and the first number that prints 0.501
DocRoundingEnds ==
    Lottie(<<ShapeLayer(<<"A">>, <<Fill(<<127373, 0, 0>>)>>),
             ShapeLayer(<<"B">>, <<Fill(<<127627, 0, 0>>)>>),
             ShapeLayer(<<"C">>, <<Fill(<<127628, 0, 0>>)>>)>>, <<>>)

\* a layer without a name in the main list and one in an asset, at the same
\* index, with the same fill
UnnamedShapeLayer(shapes) == JObj(<<KV("ty", JInt(4)), KV("shapes", JArr(shapes))>>)
DocUnnamedLayers ==
    Lottie(<<UnnamedShapeLayer(<<Fill(Red)>>)>>,
           <<KV("assets", JArr(<<JObj(<<KV("layers",
                JArr(<<UnnamedShapeLayer(<<Fill(Red)>>)>>))>>)>>))>>)

\* a solid layer whose sc field is the tree sc
SolidLayerWith(name, sc) == JObj(<<KV("ty", JInt(1)), KV("nm", JStr(name)), KV("sc", sc)>>)
\* solid layers with sc in mixed case, without '#', of five and of seven
\* digits, of three digits, with a letter that is no hex digit, with two
\* '#', with '#' at the end, empty, a number, null and missing
DocSolids ==
    Lottie(<<SolidLayer(<<"A">>, <<"#", "a", "B", "c", "D", "e", "F">>),
             SolidLayer(<<"B">>, <<"f", "F", "0", "0", "0", "9">>),
             SolidLayer(<<"C">>, <<"#", "B", "F", "2", "5", "2">>),
             SolidLayer(<<"D">>, <<"#", "B", "F", "2", "5", "2", "5", "5">>),
             SolidLayer(<<"E">>, <<"#", "f", "f", "f">>),
             SolidLayer(<<"F">>, <<"#", "G", "G", "0", "0", "0", "0">>),
             SolidLayer(<<"G">>, <<"#", "#", "B", "F", "2", "5", "2", "5">>),
             SolidLayer(<<"H">>, <<"B", "F", "2", "5", "2", "5", "#">>),
             SolidLayer(<<"I">>, <<>>),
             SolidLayerWith(<<"J">>, JInt(0)),
             SolidLayerWith(<<"K">>, JNull),
             JObj(<<KV("ty", JInt(1)), KV("nm", JStr(<<"L">>))>>)>>, <<>>)

\* a document without the layers field, and what it holds instead
NoLayers(more) ==
    JObj(<<KV("v", JStr(<<"5">>)), KV("fr", JInt(30)), KV("ip", JInt(0)),
           KV("op", JInt(60))>> \o more)
\* no layers, but precomposition assets: a solid layer, a fill and a stroke
DocAssetsOnly ==
    NoLayers(<<KV("assets", JArr(<<JObj(<<KV("layers",
        JArr(<<SolidLayer(<<"A">>, HexBF2525), ShapeLayer(<<"B">>, <<Fill(Blue)>>),
               ShapeLayer(<<"C">>, <<Stroke(Green)>>)>>))>>)>>))>>)
\* no layers, and an asset list holding null
DocNullAsset == NoLayers(<<KV("assets", JArr(<<JNull>>))>>)
\* Documents that are absent, not an object, or whose layers field is absent
\* or not an array: null, a number, a string, an array, an object without
\* layers, objects whose layers is null, a string, a number or an object
MalformedDocs ==
    {JNull, JInt(5), JStr(<<"x">>), JArr(<<Fill(Red)>>), NoLayers(<<>>),
     NoLayers(<<KV("layers", JNull)>>),
     NoLayers(<<KV("layers", JStr(<<"x">>))>>),
     NoLayers(<<KV("layers", JInt(1))>>),
     NoLayers(<<KV("layers", JObj(<<KV("0", ShapeLayer(<<"A">>, <<Fill(Red)>>))>>))>>),
     NoLayers(<<KV("shapes", JArr(<<Fill(Red)>>)), KV("sc", JStr(HexBF2525)), KV("ty", JInt(1))>>),
     DocAssetsOnly, DocNullAsset}

\* a gradient fill ('gf') or gradient stroke ('gs') that also carries a
\* static colour property
Gradient(ty) ==
    JObj(<<KV("ty", JStr(ty)), KV("c", JObj(<<KV("a", JInt(0)), KV("k", JColor(Red))>>)),
           KV("g", JObj(<<KV("p", JInt(2)),
                          KV("k", JObj(<<KV("a", JInt(0)), KV("k", JColor(Green))>>))>>))>>)
\* a group that carries a static colour property of its own
GroupWithColor(items) ==
    JObj(<<KV("ty", JStr(<<"g", "r">>)), KV("c", JObj(<<KV("a", JInt(0)), KV("k", JColor(Red))>>)),
           KV("it", JArr(items))>>)
\* groups nested three deep, with null items, gradients, an empty group and
\* a group whose it is no list
DocDeep ==
    Lottie(<<ShapeLayer(<<"A">>,
              <<GroupShape(<<JNull,
                             GroupWithColor(<<Fill(Red), Gradient(<<"g", "f">>),
                                              GroupShape(<<Stroke(Blue)>>)>>),
                             Stroke(Green)>>),
                Gradient(<<"g", "s">>),
                GroupShape(<<>>),
                JObj(<<KV("ty", JStr(<<"g", "r">>)), KV("it", JNull),
                       KV("c", JObj(<<KV("a", JInt(0)), KV("k", JColor(Red))>>))>>)>>)>>, <<>>)

\* the documents the groupings are run on
GroupDocs ==
    {DocFillSolid, DocNested, DocNullLayer, DocTwoLayers, DocEmpty, DocSameName,
     DocNumberNames, DocInheritedName, DocKeyframed, DocNotColors, DocRoundingEnds,
     DocUnnamedLayers, DocSolids, DocDeep}

\* the most calls of generateId in one extraction that return an id an
\* earlier call returned
MaxCollisions == 2

\* Addresses captured from another document: they need not resolve
PathFill(layer, shape) ==
    <<Key("layers"), Idx(layer), Key("shapes"), Idx(shape), Key("c"), Key("k")>>
PathSolid(layer) == <<Key("layers"), Idx(layer), Key("sc")>>
StaleTarget(path) == [path |-> path, layerName |-> Undef, shapeName |-> Undef]

\* The inputs of the applicator: a document and an address a stale scan
\* may hold besides those of the document's own scan
ApplyInputs ==
    { [doc |-> DocFillSolid, stale |-> PathFill(0, 3)],
      [doc |-> DocFillSolid, stale |-> PathFill(1, 0)],
      [doc |-> DocNested, stale |-> PathSolid(2)],
      [doc |-> DocNullLayer, stale |-> PathFill(0, 0)],
      [doc |-> DocNullLayer, stale |-> PathSolid(0)] }

\* 0.5 (a tie of the 8-bit rounding), 9/255 and 254.4/255
Mixed == <<127500, 9000, 254400, Unit>>

NewColors == {Green, Mixed}

\* the longest batch of changes
MaxChanges == 2

RECURSIVE SeqsUpTo(_, _)
SeqsUpTo(S, n) ==
    IF n = 0 THEN {<<>>}
    ELSE LET shorter == SeqsUpTo(S, n - 1)
         IN shorter \cup {Append(q, x) : q \in {r \in shorter : Len(r) = n - 1}, x \in S}

\* the targets a document's own scan yields, in document order
TargetsOf(raw) == [i \in 1..Len(raw) |-> TargetOf(raw[i])]
ScanParsed(p) == TargetsOf(RawColors(p.h, p.v).colors)
ScannedTargets(inp) == ScanParsed(ParseInto(inp.doc, <<>>))

\* the target lists of one change: any one address, the first address
\* twice, or all of them with the stale one first or last
TargetListsOf(scanned, stale) ==
    {<<scanned[i]>> : i \in 1..Len(scanned)}
        \cup {<<scanned[1], scanned[1]>>}
        \cup {<<stale>>, <<stale>> \o scanned, scanned \o <<stale>>}
TargetLists(inp) == TargetListsOf(ScannedTargets(inp), StaleTarget(inp.stale))

\* a batch before its colours are allocated
Batches(inp) ==
    SeqsUpTo([targets : TargetLists(inp), color : NewColors], MaxChanges)

\* the colour arrays of a batch, allocated one per change
RECURSIVE AllocChanges(_, _, _, _)
AllocChanges(batch, i, h, acc) ==
    IF i > Len(batch) THEN [h |-> h, changes |-> acc]
    ELSE LET c == ParseInto(JColor(batch[i].color), h)
         IN AllocChanges(batch, i + 1, c.h,
                         Append(acc, [targets |-> batch[i].targets, newColor |-> c.v]))

\* ------------------------------------------------------------------------
\* The editing hooks (hooks/useLottieColors.ts, hooks/useLottieColorGroups.ts)
\* ------------------------------------------------------------------------

\* the default tolerance 0.001
Tolerance == Unit \div 1000

\* areColorsEqual comparing exactly
areColorsEqualExact(color1, color2) == color1 = color2

\* color1.every((v, i) => Math.abs(v - color2[i]) < tolerance): where color2
\* has no i-th component the difference is NaN and the comparison is false
areColorsEqual(color1, color2) ==
    \A i \in 1..Len(color1) : i <= Len(color2) /\ Abs(color1[i] - color2[i]) < Tolerance

\* updateColor replacing the colour of every entity
updateColorAll(colors, id, newColor) ==
    [i \in 1..Len(colors) |-> [colors[i] EXCEPT !.current = newColor]]
\* resetColor falling back to the first entity's original
resetColorToFirst(colors, id) ==
    [i \in 1..Len(colors) |->
        IF colors[i].id = id THEN [colors[i] EXCEPT !.current = colors[1].original]
        ELSE colors[i]]

\* useLottieColors: the state updaters
updateColor(colors, id, newColor) ==
    [i \in 1..Len(colors) |->
        IF colors[i].id = id THEN [colors[i] EXCEPT !.current = newColor] ELSE colors[i]]
resetColor(colors, id) ==
    [i \in 1..Len(colors) |->
        IF colors[i].id = id THEN [colors[i] EXCEPT !.current = colors[i].original]
        ELSE colors[i]]
resetAllColors(colors) ==
    [i \in 1..Len(colors) |-> [colors[i] EXCEPT !.current = colors[i].original]]
changedColors(colors) ==
    SelectSeq(colors, LAMBDA color : ~areColorsEqual(color.original, color.current))

\* useLottieColorGroups: the state updaters
toggleGroupExpanded(groups, groupId) ==
    [g \in 1..Len(groups) |->
        IF groups[g].id = groupId THEN [groups[g] EXCEPT !.isExpanded = ~@] ELSE groups[g]]
updateLayerColor(groups, layerColorId, newColor) ==
    [g \in 1..Len(groups) |->
        [groups[g] EXCEPT !.layers = updateColor(groups[g].layers, layerColorId, newColor)]]
updateGroupColor(groups, groupId, newColor) ==
    [g \in 1..Len(groups) |->
        IF groups[g].id = groupId
        THEN [groups[g] EXCEPT !.layers =
                 [l \in 1..Len(groups[g].layers) |->
                     [groups[g].layers[l] EXCEPT !.current = newColor]]]
        ELSE groups[g]]
resetLayerColor(groups, layerColorId) ==
    [g \in 1..Len(groups) |->
        [groups[g] EXCEPT !.layers = resetColor(groups[g].layers, layerColorId)]]
resetGroupColor(groups, groupId) ==
    [g \in 1..Len(groups) |->
        IF groups[g].id = groupId
        THEN [groups[g] EXCEPT !.layers = resetAllColors(groups[g].layers)]
        ELSE groups[g]]
resetAllLayerColors(groups) ==
    [g \in 1..Len(groups) |-> [groups[g] EXCEPT !.layers = resetAllColors(groups[g].layers)]]
\* the layers of all groups, group by group
RECURSIVE LayersOfGroups(_, _)
LayersOfGroups(groups, g) ==
    IF g > Len(groups) THEN <<>> ELSE groups[g].layers \o LayersOfGroups(groups, g + 1)
changedLayerColors(groups) == changedColors(LayersOfGroups(groups, 1))

\* applyColorsToLottie(originalJson, changes) on the changes a just built
ModifiedJson(a, r) ==
    [h |-> r.h, heap0 |-> a.h, changes |-> a.changes, out |-> r.out,
     threw |-> r.threw, warned |-> r.warned]
ApplyChanges(originalJson, a) ==
    ModifiedJson(a, applyColorsToLottie(a.h, originalJson, a.changes))

\* getModifiedJson of either hook, given its list of changed entities.  The
\* current arrays of the changed entities are the newColor arrays of the call.
getModifiedJson(h, originalJson, changed) ==
    IF ~Truthy(originalJson)
    THEN [h |-> h, heap0 |-> h, changes |-> <<>>, out |-> Null, threw |-> FALSE, warned |-> 0]
    ELSE IF Len(changed) = 0
    THEN [h |-> h, heap0 |-> h, changes |-> <<>>, out |-> originalJson,
          threw |-> FALSE, warned |-> 0]
    ELSE ApplyChanges(originalJson,
                      AllocChanges([i \in 1..Len(changed) |->
                                       [targets |-> changed[i].targets,
                                        color |-> changed[i].current]], 1, h, <<>>))

\* isValidLottieJson (hooks/useLottieFile.ts): an object with the required keys
isValidLottieJson(h, data) ==
    /\ IsRef(data)
    /\ \A key \in {"v", "fr", "ip", "op", "layers"} :
          IF h[data.n].t = "obj" THEN KidPos(h[data.n].kids, key) # {} ELSE FALSE

\* generateId: 'color_' followed by the time and a random suffix; r stands
\* for that suffix
generateId(r) == Str(<<"c", "o", "l", "o", "r", "_", IdxKey(r)>>)

\* ------------------------------------------------------------------------
\* State
\* ------------------------------------------------------------------------

vars == <<heap, call, app>>

\* call.pc names the last call of the applicator, of a grouping, of
\* getModifiedJson or of an update or a reset; dirty tells whether an entity
\* a reset addressed differed from its original before the call
NoCall == [pc |-> "none", doc |-> Undef, changes |-> <<>>, heap0 |-> <<>>,
           out |-> Undef, threw |-> FALSE, warned |-> 0,
           dirty |-> FALSE, entities |-> <<>>]

\* The state of useLottieColors (colors, selectedColorId, originalJson) and
\* of useLottieColorGroups (colorGroups, selectedLayerColorId,
\* selectedGroupId, isBatchEditMode, originalJson); lottieJson is the prop,
\* pending tells that the effect on it has not run yet
NoApp == [hook |-> "none", lottieJson |-> Null, pending |-> FALSE, crashed |-> FALSE,
          originalJson |-> Null,
          colors |-> <<>>, selectedColorId |-> Null,
          colorGroups |-> <<>>, selectedLayerColorId |-> Null,
          selectedGroupId |-> Null, isBatchEditMode |-> FALSE]

\* ------------------------------------------------------------------------
\* The applicator called on its own
\* ------------------------------------------------------------------------

\* the state before a call on document doc with the changes built in a
ReadyToApply(doc, a) ==
    /\ heap = a.h
    /\ call = [NoCall EXCEPT !.pc = "ready", !.doc = doc, !.changes = a.changes,
                             !.heap0 = a.h]
    /\ app = NoApp
ParsedThenChanges(d, batch) == ReadyToApply(d.v, AllocChanges(batch, 1, d.h, <<>>))

InitApply ==
    \E inp \in ApplyInputs : \E batch \in Batches(inp) :
        ParsedThenChanges(ParseInto(inp.doc, <<>>), batch)

\* the outcome r of a call recorded
Applied(pc, r) ==
    /\ heap' = r.h
    /\ call' = [call EXCEPT !.pc = pc, !.out = r.out, !.threw = r.threw, !.warned = r.warned]
    /\ UNCHANGED app

\* applyColorsToLottie(doc, changes)
ApplyMany ==
    /\ call.pc = "ready"
    /\ Applied("many", applyColorsToLottie(heap, call.doc, call.changes))

\* applyColorToLottie(doc, path, newColor) with the first target of the batch
ApplyOne ==
    /\ call.pc = "ready"
    /\ call.changes # <<>>
    /\ Applied("one", applyColorToLottie(heap, call.doc, call.changes[1].targets[1].path,
                                         call.changes[1].newColor))

NextApply == ApplyMany \/ ApplyOne

SpecApply == InitApply /\ [][NextApply]_vars

\* ------------------------------------------------------------------------
\* The two groupings called on a scanned document
\* ------------------------------------------------------------------------

\* The values of n calls of generateId: all distinct, or with up to
\* MaxCollisions repetitions.  Only equality of ids is ever observed, so each
\* sequence stands for all that collide in the same places: a value occurs
\* only after every smaller one.
IdDraws(n) ==
    {[i \in 1..n |-> generateId(d[i])] :
        d \in {x \in [1..n -> 1..n] :
                 /\ \A i \in 1..n : \A v \in 1..(x[i] - 1) : \E j \in 1..(i - 1) : x[j] = v
                 /\ Cardinality({x[i] : i \in 1..n}) >= n - MaxCollisions}}

InitGroup ==
    \E doc \in GroupDocs :
        LET d == ParseInto(doc, <<>>)
        IN /\ heap = d.h
           /\ call = [NoCall EXCEPT !.pc = "ready", !.doc = d.v, !.heap0 = d.h]
           /\ app = NoApp

\* the outcome of a grouping recorded
Grouped(pc, threw, entities) ==
    call' = [call EXCEPT !.pc = pc, !.threw = threw, !.entities = entities]

\* extractColorsFromLottie(doc)
ExtractColors ==
    /\ call.pc = "ready"
    /\ \E ids \in IdDraws(FlatIdCount(RawColors(heap, call.doc).colors)) :
          Grouped("flat", extractColorsFromLottie(heap, call.doc, ids).threw,
                  extractColorsFromLottie(heap, call.doc, ids).colors)
    /\ UNCHANGED <<heap, app>>

\* extractColorGroupsFromLottie(doc)
ExtractColorGroups ==
    /\ call.pc = "ready"
    /\ \E ids \in IdDraws(GroupIdCount(RawColors(heap, call.doc).colors)) :
          Grouped("groups", extractColorGroupsFromLottie(heap, call.doc, ids).threw,
                  extractColorGroupsFromLottie(heap, call.doc, ids).groups)
    /\ UNCHANGED <<heap, app>>

NextGroup == ExtractColors \/ ExtractColorGroups

SpecGroup == InitGroup /\ [][NextGroup]_vars

\* extractColorsFromLottie(doc) called again on the document of the last call
ExtractColorsAgain ==
    /\ call.pc \in {"flat", "flatAgain"}
    /\ \E ids \in IdDraws(FlatIdCount(RawColors(heap, call.doc).colors)) :
          Grouped("flatAgain", extractColorsFromLottie(heap, call.doc, ids).threw,
                  extractColorsFromLottie(heap, call.doc, ids).colors)
    /\ UNCHANGED <<heap, app>>

\* extractColorGroupsFromLottie(doc) called again
ExtractColorGroupsAgain ==
    /\ call.pc \in {"groups", "groupsAgain"}
    /\ \E ids \in IdDraws(GroupIdCount(RawColors(heap, call.doc).colors)) :
          Grouped("groupsAgain", extractColorGroupsFromLottie(heap, call.doc, ids).threw,
                  extractColorGroupsFromLottie(heap, call.doc, ids).groups)
    /\ UNCHANGED <<heap, app>>

NextTwice == NextGroup \/ ExtractColorsAgain \/ ExtractColorGroupsAgain

SpecTwice == InitGroup /\ [][NextTwice]_vars

\* both groupings recorded: the entities of the flat one and, as out, the
\* groups of the hierarchical one
GroupedBoth(flat, byLayer) ==
    call' = [call EXCEPT !.pc = "both", !.threw = flat.threw \/ byLayer.threw,
                         !.entities = flat.colors, !.out = byLayer.groups]

\* extractColorsFromLottie(doc) and extractColorGroupsFromLottie(doc) called
\* on one document
ExtractBoth ==
    /\ call.pc = "ready"
    /\ \E ids \in IdDraws(FlatIdCount(RawColors(heap, call.doc).colors)) :
          \E groupIds \in IdDraws(GroupIdCount(RawColors(heap, call.doc).colors)) :
              GroupedBoth(extractColorsFromLottie(heap, call.doc, ids),
                          extractColorGroupsFromLottie(heap, call.doc, groupIds))
    /\ UNCHANGED <<heap, app>>

NextBoth == ExtractBoth

SpecBoth == InitGroup /\ [][NextBoth]_vars

\* the groupings called on a document that is not well formed
InitMalformed ==
    \E doc \in MalformedDocs :
        LET d == ParseInto(doc, <<>>)
        IN /\ heap = d.h
           /\ call = [NoCall EXCEPT !.pc = "ready", !.doc = d.v, !.heap0 = d.h]
           /\ app = NoApp

SpecMalformed == InitMalformed /\ [][NextGroup]_vars

\* ------------------------------------------------------------------------
\* The colour conversions called on 8-bit colours
\* ------------------------------------------------------------------------

\* the green and blue channels tried with every red channel
Channels == {0, 1, 2, 7, 9, 16, 37, 120, 121, 127, 128, 200, 254, 255}
\* the alpha of an RGB colour: none, or a number
Alphas == {Undef, Num(Unit \div 2)}

InitConvert ==
    /\ heap = <<>>
    /\ app = NoApp
    /\ \E r \in 0..255 : \E g \in Channels : \E b \in Channels : \E a \in Alphas :
          call = [NoCall EXCEPT !.pc = "rgb", !.doc = [r |-> r, g |-> g, b |-> b, a |-> a]]

\* rgbToHsl(rgb)
RgbToHsl ==
    /\ call.pc = "rgb"
    /\ \E hsl \in rgbToHsl(call.doc) : call' = [call EXCEPT !.pc = "hsl", !.out = hsl]
    /\ UNCHANGED <<heap, app>>

\* hslToRgb(hsl) for the colour rgbToHsl returned, which entities keeps
HslToRgb ==
    /\ call.pc = "hsl"
    /\ \E rgb \in hslToRgb(call.out) :
          call' = [call EXCEPT !.pc = "rgbOfHsl", !.out = rgb, !.entities = <<call.out>>]
    /\ UNCHANGED <<heap, app>>

\* rgbToHex(rgb)
RgbToHex ==
    /\ call.pc = "rgb"
    /\ call' = [call EXCEPT !.pc = "hex", !.out = Str(rgbToHex(call.doc))]
    /\ UNCHANGED <<heap, app>>

\* hexToRgb(hex) for the string rgbToHex returned, which entities keeps
HexToRgb ==
    /\ call.pc = "hex"
    /\ call' = [call EXCEPT !.pc = "rgbOfHex", !.entities = <<call.out>>,
                            !.threw = (hexToRgb(call.out.s) = <<>>),
                            !.out = IF hexToRgb(call.out.s) = <<>> THEN Undef
                                    ELSE hexToRgb(call.out.s)[1]]
    /\ UNCHANGED <<heap, app>>

NextConvert == RgbToHsl \/ HslToRgb \/ RgbToHex \/ HexToRgb

SpecConvert == InitConvert /\ [][NextConvert]_vars

\* ------------------------------------------------------------------------
\* colorsEqual (utils/colorConverter.ts) called on pairs of colours
\* ------------------------------------------------------------------------

\* colorsEqual with <= for <
colorsEqualInclusive(color1, color2) ==
    /\ Len(color1) = Len(color2)
    /\ \A i \in 1..Len(color1) : Abs(color1[i] - color2[i]) <= Tolerance

\* colorsEqual with the default tolerance:
\* if (color1.length !== color2.length) return false;
\* return color1.every((v, i) => Math.abs(v - color2[i]) < tolerance)
colorsEqual(color1, color2) ==
    /\ Len(color1) = Len(color2)
    /\ \A i \in 1..Len(color1) : Abs(color1[i] - color2[i]) < Tolerance

\* the components tried: 0, just under 0.001, 0.001, and 1
Components == {0, Tolerance - 1, Tolerance, Unit}
\* the colours compared: three components and, possibly, an alpha
ComparedColors ==
    {<<r, g, b>> : r \in Components, g \in {0, Tolerance}, b \in {0}}
        \cup {<<r, g, b, a>> : r \in Components, g \in {0, Tolerance}, b \in {0},
                               a \in {Tolerance, Unit}}

InitEqual ==
    /\ heap = <<>>
    /\ app = NoApp
    /\ \E color1 \in ComparedColors : \E color2 \in ComparedColors :
          call = [NoCall EXCEPT !.pc = "colors", !.changes = <<color1, color2>>]

\* colorsEqual(color1, color2), colorsEqual(color2, color1) and
\* colorsEqual(color1, color1)
ColorsEqual ==
    /\ call.pc = "colors"
    /\ call' = [call EXCEPT !.pc = "equal",
                            !.out = [forth |-> colorsEqual(call.changes[1], call.changes[2]),
                                     back |-> colorsEqual(call.changes[2], call.changes[1]),
                                     self |-> colorsEqual(call.changes[1], call.changes[1])]]
    /\ UNCHANGED <<heap, app>>

NextEqual == ColorsEqual

SpecEqual == InitEqual /\ [][NextEqual]_vars

\* ------------------------------------------------------------------------
\* An editing hook under file loads and user edits
\* ------------------------------------------------------------------------

\* the documents a loaded file can hold
HookDocs == {DocFillSolid, DocTwoLayers, DocEmpty}
\* a .json file of a Lottie document, a .json file that is not one, and a
\* .lottie file (which is not parsed)
Files ==
    {[type |-> "json", doc |-> d] : d \in HookDocs \cup {JObj(<<KV("v", JStr(<<"5">>))>>)}}
        \cup {[type |-> "lottie", doc |-> JNull]}

\* The sliders replace one channel of the colour shown
\* (components/ColorEditor/ColorSwatch.tsx), so a new colour has as many
\* components as the colour it replaces: one within the tolerance of the
\* original and one far from it
NewColorsFor(original) ==
    { [original EXCEPT ![1] = IF @ >= 100 THEN @ - 100 ELSE @ + 100],
      [original EXCEPT ![2] = Unit - @] }

\* The containers of the document in use, which are the first of the heap;
\* what a call of getModifiedJson allocated besides them is unreachable once its
\* caller is done with the result, and dropped
Live(h, root) ==
    IF ~IsRef(root) THEN <<>>
    ELSE IF call.pc = "getModifiedJson" THEN SubSeq(h, 1, Cardinality(Reach(h, root)))
    ELSE h
\* The document at root alone, its containers renumbered from 1
Relocate(h, root) == ParseInto(Stringify(h, root), <<>>)

Mounted == app.hook # "none" /\ ~app.crashed
\* effects run before the next event is handled
Ready == Mounted /\ ~app.pending

InitHook ==
    /\ heap = <<>>
    /\ call = NoCall
    /\ \E hook \in {"flat", "groups"} : app = [NoApp EXCEPT !.hook = hook]

\* setFileData: the rawJson the hooks receive as their lottieJson prop
SetRawJson(rawJson) ==
    app' = [app EXCEPT !.lottieJson = rawJson, !.pending = (rawJson # app.lottieJson)]
\* the file read: p is its text parsed on top of the containers in use
FileRead(type, live, p) ==
    IF type = "json" /\ isValidLottieJson(p.h, p.v)
    THEN heap' = p.h /\ SetRawJson(p.v)
    ELSE heap' = live /\ SetRawJson(Null)

\* useLottieFile.handleFile: fileData.rawJson becomes the parsed document,
\* or null for a .lottie file; a rejected file sets fileData to null
HandleFile ==
    /\ Ready
    /\ \E file \in Files :
          FileRead(file.type, Live(heap, app.originalJson),
                   ParseInto(file.doc, Live(heap, app.originalJson)))
    /\ call' = NoCall

\* useLottieFile.clearFile
ClearFile ==
    /\ Ready
    /\ heap' = Live(heap, app.originalJson)
    /\ app' = [app EXCEPT !.lottieJson = Null, !.pending = (app.lottieJson # Null)]
    /\ call' = NoCall

\* the setters of the effect, for the extraction r of the document m; an
\* exception in the effect unmounts the tree
SetColors(r, m) ==
    IF r.threw
    THEN /\ app' = [app EXCEPT !.pending = FALSE, !.crashed = TRUE]
         /\ heap' = heap
    ELSE /\ app' = [app EXCEPT !.pending = FALSE,
                               !.lottieJson = m.v,
                               !.colors = r.colors,
                               !.originalJson = m.v,
                               !.selectedColorId =
                                   IF Len(r.colors) > 0 THEN r.colors[1].id ELSE Null]
         /\ heap' = m.h

\* useLottieColors: the effect on [lottieJson]
EffectColors ==
    /\ Mounted /\ app.hook = "flat" /\ app.pending
    /\ IF Truthy(app.lottieJson)
       THEN \E ids \in IdDraws(FlatIdCount(RawColors(heap, app.lottieJson).colors)) :
               SetColors(extractColorsFromLottie(heap, app.lottieJson, ids),
                         Relocate(heap, app.lottieJson))
       ELSE /\ app' = [app EXCEPT !.pending = FALSE, !.colors = <<>>,
                                  !.originalJson = Null, !.selectedColorId = Null]
            /\ heap' = <<>>
    /\ call' = NoCall

\* whether there is a first layer colour to select
HasFirstLayer(groups) == Len(groups) > 0 /\ Len(groups[1].layers) > 0
SetColorGroups(r, m) ==
    IF r.threw
    THEN /\ app' = [app EXCEPT !.pending = FALSE, !.crashed = TRUE]
         /\ heap' = heap
    ELSE /\ app' = [app EXCEPT !.pending = FALSE,
                               !.lottieJson = m.v,
                               !.colorGroups = r.groups,
                               !.originalJson = m.v,
                               !.selectedLayerColorId =
                                   IF HasFirstLayer(r.groups)
                                   THEN r.groups[1].layers[1].id ELSE @,
                               !.selectedGroupId =
                                   IF HasFirstLayer(r.groups) THEN Null ELSE @,
                               !.isBatchEditMode =
                                   IF HasFirstLayer(r.groups) THEN FALSE ELSE @]
         /\ heap' = m.h

\* useLottieColorGroups: the effect on [lottieJson]
EffectColorGroups ==
    /\ Mounted /\ app.hook = "groups" /\ app.pending
    /\ IF Truthy(app.lottieJson)
       THEN \E ids \in IdDraws(GroupIdCount(RawColors(heap, app.lottieJson).colors)) :
               SetColorGroups(extractColorGroupsFromLottie(heap, app.lottieJson, ids),
                              Relocate(heap, app.lottieJson))
       ELSE /\ app' = [app EXCEPT !.pending = FALSE, !.colorGroups = <<>>,
                                  !.originalJson = Null, !.selectedLayerColorId = Null,
                                  !.selectedGroupId = Null, !.isBatchEditMode = FALSE]
            /\ heap' = <<>>
    /\ call' = NoCall

\* whether an entity of the list with this id differs from its original
Dirty(entities, id) ==
    \E i \in 1..Len(entities) :
        entities[i].id = id /\ entities[i].current # entities[i].original

FlatReady == Ready /\ app.hook = "flat"
GroupsReady == Ready /\ app.hook = "groups"

\* useLottieColors.selectColor(id)
SelectColor(id) ==
    /\ FlatReady
    /\ heap' = Live(heap, app.originalJson)
    /\ app' = [app EXCEPT !.selectedColorId = id]
    /\ call' = NoCall

\* useLottieColors.updateColor(id, newColor)
UpdateColor(id, newColor) ==
    /\ FlatReady
    /\ heap' = Live(heap, app.originalJson)
    /\ app' = [app EXCEPT !.colors = updateColor(app.colors, id, newColor)]
    /\ call' = [NoCall EXCEPT !.pc = "updateColor"]

\* useLottieColors.resetColor(id)
ResetColor(id) ==
    /\ FlatReady
    /\ heap' = Live(heap, app.originalJson)
    /\ app' = [app EXCEPT !.colors = resetColor(app.colors, id)]
    /\ call' = [NoCall EXCEPT !.pc = "resetColor",
                              !.dirty = Dirty(app.colors, id)]

\* useLottieColors.resetAllColors()
ResetAllColors ==
    /\ FlatReady
    /\ heap' = Live(heap, app.originalJson)
    /\ app' = [app EXCEPT !.colors = resetAllColors(app.colors)]
    /\ call' = [NoCall EXCEPT !.pc = "resetAllColors",
                              !.dirty = \E i \in 1..Len(app.colors) :
                                           Dirty(app.colors, app.colors[i].id)]

\* the outcome r of getModifiedJson recorded
Modified(r) ==
    /\ heap' = r.h
    /\ call' = [NoCall EXCEPT !.pc = "getModifiedJson", !.doc = app.originalJson,
                              !.changes = r.changes, !.heap0 = r.heap0,
                              !.out = r.out, !.threw = r.threw, !.warned = r.warned]
    /\ UNCHANGED app

\* useLottieColors.getModifiedJson()
GetModifiedJsonColors ==
    /\ FlatReady
    /\ Modified(getModifiedJson(Live(heap, app.originalJson), app.originalJson,
                                changedColors(app.colors)))

\* selectLayerColor setting the selected layer colour alone
SelectLayerColorOnly(id) ==
    /\ GroupsReady
    /\ heap' = Live(heap, app.originalJson)
    /\ app' = [app EXCEPT !.selectedLayerColorId = id]
    /\ call' = NoCall

\* useLottieColorGroups.selectLayerColor(id)
SelectLayerColor(id) ==
    /\ GroupsReady
    /\ heap' = Live(heap, app.originalJson)
    /\ app' = [app EXCEPT !.selectedLayerColorId = id, !.selectedGroupId = Null,
                          !.isBatchEditMode = FALSE]
    /\ call' = NoCall

\* useLottieColorGroups.selectGroupForBatchEdit(groupId)
SelectGroupForBatchEdit(groupId) ==
    /\ GroupsReady
    /\ heap' = Live(heap, app.originalJson)
    /\ app' = [app EXCEPT !.selectedGroupId = groupId, !.selectedLayerColorId = Null,
                          !.isBatchEditMode = TRUE]
    /\ call' = NoCall

\* useLottieColorGroups.toggleGroupExpanded(groupId)
ToggleGroupExpanded(groupId) ==
    /\ GroupsReady
    /\ heap' = Live(heap, app.originalJson)
    /\ app' = [app EXCEPT !.colorGroups = toggleGroupExpanded(app.colorGroups, groupId)]
    /\ call' = NoCall

\* useLottieColorGroups.updateLayerColor(layerColorId, newColor)
UpdateLayerColor(layerColorId, newColor) ==
    /\ GroupsReady
    /\ heap' = Live(heap, app.originalJson)
    /\ app' = [app EXCEPT !.colorGroups =
                              updateLayerColor(app.colorGroups, layerColorId, newColor)]
    /\ call' = [NoCall EXCEPT !.pc = "updateLayerColor"]

\* useLottieColorGroups.updateGroupColor(groupId, newColor)
UpdateGroupColor(groupId, newColor) ==
    /\ GroupsReady
    /\ heap' = Live(heap, app.originalJson)
    /\ app' = [app EXCEPT !.colorGroups =
                              updateGroupColor(app.colorGroups, groupId, newColor)]
    /\ call' = [NoCall EXCEPT !.pc = "updateGroupColor"]

\* useLottieColorGroups.resetLayerColor(layerColorId)
ResetLayerColor(layerColorId) ==
    /\ GroupsReady
    /\ heap' = Live(heap, app.originalJson)
    /\ app' = [app EXCEPT !.colorGroups = resetLayerColor(app.colorGroups, layerColorId)]
    /\ call' = [NoCall EXCEPT !.pc = "resetLayerColor",
                              !.dirty = Dirty(LayersOfGroups(app.colorGroups, 1),
                                              layerColorId)]

\* useLottieColorGroups.resetGroupColor(groupId)
ResetGroupColor(groupId) ==
    /\ GroupsReady
    /\ heap' = Live(heap, app.originalJson)
    /\ app' = [app EXCEPT !.colorGroups = resetGroupColor(app.colorGroups, groupId)]
    /\ call' = [NoCall EXCEPT !.pc = "resetGroupColor",
                              !.dirty = \E g \in 1..Len(app.colorGroups) :
                                           /\ app.colorGroups[g].id = groupId
                                           /\ \E l \in 1..Len(app.colorGroups[g].layers) :
                                                 Dirty(app.colorGroups[g].layers,
                                                       app.colorGroups[g].layers[l].id)]

\* useLottieColorGroups.resetAllColors()
ResetAllLayerColors ==
    /\ GroupsReady
    /\ heap' = Live(heap, app.originalJson)
    /\ app' = [app EXCEPT !.colorGroups = resetAllLayerColors(app.colorGroups)]
    /\ call' = [NoCall EXCEPT !.pc = "resetAllLayerColors",
                              !.dirty = \E i \in 1..Len(LayersOfGroups(app.colorGroups, 1)) :
                                           Dirty(LayersOfGroups(app.colorGroups, 1),
                                                 LayersOfGroups(app.colorGroups, 1)[i].id)]

\* useLottieColorGroups.getModifiedJson()
GetModifiedJsonGroups ==
    /\ GroupsReady
    /\ Modified(getModifiedJson(Live(heap, app.originalJson), app.originalJson,
                                changedLayerColors(app.colorGroups)))

\* the ids and colours the user interface passes: those of what it shows
FlatIds == {app.colors[i].id : i \in 1..Len(app.colors)}
GroupIds == {app.colorGroups[g].id : g \in 1..Len(app.colorGroups)}
LayerColors == LayersOfGroups(app.colorGroups, 1)
LayerColorIds == {LayerColors[i].id : i \in 1..Len(LayerColors)}

SelectColorAny == \E id \in FlatIds \cup {Null} : SelectColor(id)
UpdateColorAny ==
    \E i \in 1..Len(app.colors) : \E newColor \in NewColorsFor(app.colors[i].original) :
        UpdateColor(app.colors[i].id, newColor)
ResetColorAny == \E id \in FlatIds : ResetColor(id)
SelectLayerColorAny == \E id \in LayerColorIds \cup {Null} : SelectLayerColor(id)
SelectGroupForBatchEditAny == \E groupId \in GroupIds : SelectGroupForBatchEdit(groupId)
ToggleGroupExpandedAny == \E groupId \in GroupIds : ToggleGroupExpanded(groupId)
UpdateLayerColorAny ==
    \E i \in 1..Len(LayerColors) : \E newColor \in NewColorsFor(LayerColors[i].original) :
        UpdateLayerColor(LayerColors[i].id, newColor)
UpdateGroupColorAny ==
    \E g \in 1..Len(app.colorGroups) :
        \E newColor \in NewColorsFor(app.colorGroups[g].originalColor) :
            UpdateGroupColor(app.colorGroups[g].id, newColor)
ResetLayerColorAny == \E id \in LayerColorIds : ResetLayerColor(id)
ResetGroupColorAny == \E groupId \in GroupIds : ResetGroupColor(groupId)

NextHook ==
    \/ HandleFile \/ ClearFile \/ EffectColors \/ EffectColorGroups
    \/ SelectColorAny \/ UpdateColorAny \/ ResetColorAny \/ ResetAllColors
    \/ GetModifiedJsonColors
    \/ SelectLayerColorAny \/ SelectGroupForBatchEditAny \/ ToggleGroupExpandedAny
    \/ UpdateLayerColorAny \/ UpdateGroupColorAny
    \/ ResetLayerColorAny \/ ResetGroupColorAny \/ ResetAllLayerColors
    \/ GetModifiedJsonGroups

SpecHook == InitHook /\ [][NextHook]_vars

\* ------------------------------------------------------------------------
\* The App component (App.tsx): useLottieFile, one of the colour hooks, the
\* slider drag state and the two effects that refresh the player's src
\* ------------------------------------------------------------------------

\* the most invocations of updateSrcFromJson counted between two events
MaxInvocations == 2

\* fileData of useLottieFile: src is the JSON text its data URL encodes and
\* file the text of the file read; loaded is false for fileData = null
NoFile == [loaded |-> FALSE, src |-> JNull, rawJson |-> Null, file |-> JNull]

\* The state of App on top of the hook's: fileData, isSliderDragging, the
\* ref hasPendingUpdate, whether the two effects of App have a changed
\* dependency (due), and the invocations of updateSrcFromJson since the
\* last event
NoAppState ==
    NoApp @@ [fileData |-> NoFile, isSliderDragging |-> FALSE, hasPendingUpdate |-> FALSE,
              due |-> FALSE, invocations |-> 0]

InitApp ==
    /\ heap = <<>>
    /\ call = NoCall
    /\ \E hook \in {"flat", "groups"} : app = [NoAppState EXCEPT !.hook = hook]

\* fileData?.rawJson ?? null: the lottieJson prop of the hook
LottieJsonProp(fileData) == IF fileData.loaded THEN fileData.rawJson ELSE Null

\* setFileData: updateSrcFromJson, which depends on [fileData], gets a new
\* identity, and the hook's effect is pending when its lottieJson changes
SetFileData(a, fileData) ==
    [a EXCEPT !.fileData = fileData,
              !.lottieJson = LottieJsonProp(fileData),
              !.pending = a.pending \/ LottieJsonProp(fileData) # a.lottieJson,
              !.due = TRUE]

\* the state updater of updateSrcFromJson:
\* prev => prev ? { ...prev, src: newSrc } : null
updateSrcFromJson(fileData, jsonString) ==
    IF fileData.loaded THEN [fileData EXCEPT !.src = jsonString] ELSE fileData

\* changedColors of useLottieColors, changedLayerColors of
\* useLottieColorGroups, and hasChanges
Changed(a) ==
    IF a.hook = "flat" THEN changedColors(a.colors) ELSE changedLayerColors(a.colorGroups)
hasChanges(a) == Len(Changed(a)) > 0

\* the first effect of App with the drag ignored
JsonUpdateEffectAlways(changes, isSliderDragging, hasPendingUpdate) ==
    [invoke |-> changes, hasPendingUpdate |-> IF changes THEN FALSE ELSE hasPendingUpdate]

\* The first effect of App (update the JSON after a colour change): whether
\* it calls getModifiedJson and updateSrcFromJson, and hasPendingUpdate.current
\* after it
JsonUpdateEffect(changes, isSliderDragging, hasPendingUpdate) ==
    [invoke |-> changes /\ ~isSliderDragging,
     hasPendingUpdate |-> IF changes THEN isSliderDragging ELSE hasPendingUpdate]

\* The second effect of App (apply the pending update when the drag ends)
PendingUpdateEffect(changes, isSliderDragging, hasPendingUpdate) ==
    [invoke |-> ~isSliderDragging /\ hasPendingUpdate /\ changes,
     hasPendingUpdate |-> IF ~isSliderDragging /\ changes THEN FALSE ELSE hasPendingUpdate]

\* the two effects in the order of their declaration, for the values of the
\* render a
FirstEffect(a) ==
    IF a.due THEN JsonUpdateEffect(hasChanges(a), a.isSliderDragging, a.hasPendingUpdate)
    ELSE [invoke |-> FALSE, hasPendingUpdate |-> a.hasPendingUpdate]
SecondEffect(a) ==
    IF a.due
    THEN PendingUpdateEffect(hasChanges(a), a.isSliderDragging, FirstEffect(a).hasPendingUpdate)
    ELSE [invoke |-> FALSE, hasPendingUpdate |-> a.hasPendingUpdate]
\* whether getModifiedJson is called by the effects of the render a
Invokes(a) == FirstEffect(a).invoke \/ SecondEffect(a).invoke

\* getModifiedJson() of the render a, where an effect calls it
ModifiedBy(a, h) ==
    IF Invokes(a) THEN getModifiedJson(h, a.originalJson, Changed(a))
    ELSE [h |-> h, heap0 |-> h, changes |-> <<>>, out |-> Null, threw |-> FALSE, warned |-> 0]

\* the hook's setters after an extraction r that did not throw
FlatExtracted(a, r) ==
    [a EXCEPT !.pending = FALSE, !.crashed = r.threw,
              !.colors = IF r.threw THEN @ ELSE r.colors,
              !.originalJson = IF r.threw THEN @ ELSE a.lottieJson,
              !.selectedColorId =
                  IF r.threw THEN @ ELSE IF Len(r.colors) > 0 THEN r.colors[1].id ELSE Null]
GroupsExtracted(a, r) ==
    [a EXCEPT !.pending = FALSE, !.crashed = r.threw,
              !.colorGroups = IF r.threw THEN @ ELSE r.groups,
              !.originalJson = IF r.threw THEN @ ELSE a.lottieJson,
              !.selectedLayerColorId =
                  IF HasFirstLayer(r.groups) THEN r.groups[1].layers[1].id ELSE @,
              !.selectedGroupId = IF HasFirstLayer(r.groups) THEN Null ELSE @,
              !.isBatchEditMode = IF HasFirstLayer(r.groups) THEN FALSE ELSE @]
\* the hook's effect on [lottieJson] for the render a; ids are the ids
\* generateId returns
HookEffect(a, h, ids) ==
    IF ~a.pending THEN a
    ELSE IF ~Truthy(a.lottieJson)
    THEN [a EXCEPT !.pending = FALSE, !.colors = <<>>, !.colorGroups = <<>>,
                   !.originalJson = Null, !.selectedColorId = Null,
                   !.selectedLayerColorId = Null, !.selectedGroupId = Null,
                   !.isBatchEditMode = FALSE]
    ELSE IF a.hook = "flat"
    THEN FlatExtracted(a, extractColorsFromLottie(h, a.lottieJson, ids))
    ELSE GroupsExtracted(a, extractColorGroupsFromLottie(h, a.lottieJson, ids))
\* the ids one run of the hook's effect may draw
EffectIds(a, h) ==
    IF ~(a.pending /\ Truthy(a.lottieJson)) THEN {<<>>}
    ELSE IF a.hook = "flat" THEN IdDraws(FlatIdCount(RawColors(h, a.lottieJson).colors))
    ELSE IdDraws(GroupIdCount(RawColors(h, a.lottieJson).colors))

\* whether the effects of the render a call setFileData
Refreshes(a, m) == Invokes(a) /\ ~m.threw /\ Truthy(m.out) /\ a.fileData.loaded

\* The state after the effects of the render a: next is what the hook's
\* effect set, m what getModifiedJson returned.  The setters of the hook
\* and setFileData each give the effects of App a changed dependency.
Flushed(a, next, m) ==
    [next EXCEPT
        !.crashed = @ \/ m.threw,
        !.fileData = IF Refreshes(a, m)
                     THEN updateSrcFromJson(@, Stringify(m.h, m.out)) ELSE @,
        !.hasPendingUpdate = IF m.threw THEN @ ELSE SecondEffect(a).hasPendingUpdate,
        !.due = a.pending \/ Refreshes(a, m),
        !.invocations = IF Invokes(a) /\ @ < MaxInvocations THEN @ + 1 ELSE @]

\* the containers kept after the effects: none when the document was
\* cleared, else those of the document (the copy getModifiedJson made is
\* garbage once its text is taken; a document written to may refer to what
\* was allocated after it)
KeptHeap(a, h, m) ==
    IF a.pending /\ ~Truthy(a.lottieJson) THEN <<>>
    ELSE IF SubSeq(m.h, 1, Len(h)) = h THEN h
    ELSE m.h

\* what the effects of the render did: the JSON text passed to
\* updateSrcFromJson, if it was called, the event handled last before
\* them and hasPendingUpdate.current as they found it
EffectsCall(a, m, event) ==
    IF Invokes(a) /\ ~m.threw /\ Truthy(m.out)
    THEN [NoCall EXCEPT !.pc = "updateSrcFromJson", !.out = Stringify(m.h, m.out)]
             @@ [after |-> event, wasPending |-> a.hasPendingUpdate]
    ELSE [NoCall EXCEPT !.pc = "effects", !.threw = m.threw]

AppMounted == app.hook # "none" /\ ~app.crashed

\* The passive effects of one render, in order: the hook's effect on
\* [lottieJson], then the two effects of App, all with the values of that
\* render; the state they set is that of the next render
AppEffects ==
    /\ AppMounted
    /\ app.pending \/ app.due
    /\ \E ids \in EffectIds(app, heap) :
          app' = Flushed(app, HookEffect(app, heap, ids), ModifiedBy(app, heap))
    /\ heap' = KeptHeap(app, heap, ModifiedBy(app, heap))
    /\ call' = EffectsCall(app, ModifiedBy(app, heap), call.pc)

\* the file read: setFileData({ name, src, type, rawJson }), or
\* setFileData(null) for a .json file that is no Lottie document
AppFileRead(file, p) ==
    IF file.type = "json" /\ ~isValidLottieJson(p.h, p.v)
    THEN heap' = heap /\ app' = [app EXCEPT !.invocations = 0]
    ELSE /\ heap' = IF file.type = "json" THEN p.h ELSE heap
         /\ app' = [SetFileData(app, [loaded |-> TRUE, src |-> file.doc, file |-> file.doc,
                                     rawJson |-> IF file.type = "json" THEN p.v ELSE Null])
                       EXCEPT !.invocations = 0]

\* handleFile, which the FileUploader calls; it is shown while fileData is
\* null, and the file is read after the effects of the earlier renders
AppHandleFile ==
    /\ AppMounted /\ ~app.fileData.loaded /\ ~app.pending /\ ~app.due
    /\ \E file \in Files : AppFileRead(file, ParseInto(file.doc, <<>>))
    /\ call' = [NoCall EXCEPT !.pc = "handleFile"]

\* clearFile, the button under the player
AppClearFile ==
    /\ AppMounted /\ app.fileData.loaded
    /\ app' = [SetFileData(app, NoFile) EXCEPT !.invocations = 0]
    /\ call' = [NoCall EXCEPT !.pc = "clearFile"]
    /\ UNCHANGED heap

\* the colour editor is rendered: fileData && colors.length > 0
EditorShown ==
    /\ AppMounted /\ app.fileData.loaded
    /\ IF app.hook = "flat" THEN Len(app.colors) > 0 ELSE Len(app.colorGroups) > 0

\* an event of the editor whose handler leaves the state a: it is handled
\* before the next render, whose effects then see its state
Handled(a, pc) ==
    /\ app' = [a EXCEPT !.due = TRUE, !.invocations = 0]
    /\ call' = [NoCall EXCEPT !.pc = pc]
    /\ UNCHANGED heap

\* the colour the picker of the editor gives for an entity
PickedFor(original) == [original EXCEPT ![2] = Unit - @]

\* handleSliderDragStart and handleSliderDragEnd
SliderDragStart ==
    /\ EditorShown /\ ~app.isSliderDragging
    /\ Handled([app EXCEPT !.isSliderDragging = TRUE], "sliderDragStart")
SliderDragEnd ==
    /\ EditorShown /\ app.isSliderDragging
    /\ Handled([app EXCEPT !.isSliderDragging = FALSE], "sliderDragEnd")

\* onUpdateColor of src/App.tsx: updateColor(id, newColor)
AppUpdateColor ==
    /\ EditorShown /\ app.hook = "flat"
    /\ \E i \in 1..Len(app.colors) :
          Handled([app EXCEPT !.colors = updateColor(@, app.colors[i].id,
                                                     PickedFor(app.colors[i].original))],
                  "updateColor")
\* onResetColor and onResetAll of src/App.tsx
AppResetColor ==
    /\ EditorShown /\ app.hook = "flat"
    /\ \E i \in 1..Len(app.colors) :
          Handled([app EXCEPT !.colors = resetColor(@, app.colors[i].id)], "resetColor")
AppResetAllColors ==
    /\ EditorShown /\ app.hook = "flat"
    /\ Handled([app EXCEPT !.colors = resetAllColors(@)], "resetAllColors")

\* onUpdateLayerColor and onUpdateGroupColor of the App with colour groups
AppUpdateLayerColor ==
    /\ EditorShown /\ app.hook = "groups"
    /\ \E i \in 1..Len(LayerColors) :
          Handled([app EXCEPT !.colorGroups =
                                  updateLayerColor(@, LayerColors[i].id,
                                                   PickedFor(LayerColors[i].original))],
                  "updateLayerColor")
AppUpdateGroupColor ==
    /\ EditorShown /\ app.hook = "groups"
    /\ \E g \in 1..Len(app.colorGroups) :
          Handled([app EXCEPT !.colorGroups =
                                  updateGroupColor(@, app.colorGroups[g].id,
                                                   PickedFor(app.colorGroups[g].originalColor))],
                  "updateGroupColor")
\* onResetLayerColor, onResetGroupColor, onResetAllColors and
\* onToggleGroupExpanded
AppResetLayerColor ==
    /\ EditorShown /\ app.hook = "groups"
    /\ \E id \in LayerColorIds :
          Handled([app EXCEPT !.colorGroups = resetLayerColor(@, id)], "resetLayerColor")
AppResetGroupColor ==
    /\ EditorShown /\ app.hook = "groups"
    /\ \E groupId \in GroupIds :
          Handled([app EXCEPT !.colorGroups = resetGroupColor(@, groupId)], "resetGroupColor")
AppResetAllLayerColors ==
    /\ EditorShown /\ app.hook = "groups"
    /\ Handled([app EXCEPT !.colorGroups = resetAllLayerColors(@)], "resetAllLayerColors")
AppToggleGroupExpanded ==
    /\ EditorShown /\ app.hook = "groups"
    /\ \E groupId \in GroupIds :
          Handled([app EXCEPT !.colorGroups = toggleGroupExpanded(@, groupId)],
                  "toggleGroupExpanded")

NextApp ==
    \/ AppHandleFile \/ AppClearFile \/ AppEffects
    \/ SliderDragStart \/ SliderDragEnd
    \/ AppUpdateColor \/ AppResetColor \/ AppResetAllColors
    \/ AppUpdateLayerColor \/ AppUpdateGroupColor
    \/ AppResetLayerColor \/ AppResetGroupColor \/ AppResetAllLayerColors
    \/ AppToggleGroupExpanded

SpecApp == InitApp /\ [][NextApp]_vars

\* ------------------------------------------------------------------------
\* Properties of the applicator
\* ------------------------------------------------------------------------

\* the <<change, target>> index pairs of a batch
TargetIndex(changes) ==
    UNION {{<<c, t>> : t \in 1..Len(changes[c].targets)} : c \in 1..Len(changes)}
PathAt(changes, ct) == changes[ct[1]].targets[ct[2]].path
TargetPaths(changes) == {PathAt(changes, ct) : ct \in TargetIndex(changes)}

\* the paths a scan of the input document yields
ScannedPaths(h, doc) ==
    LET raw == RawColors(h, doc).colors IN {raw[i].path : i \in 1..Len(raw)}

\* the value found by indexing from root along the whole path
RECURSIVE ValueAtPath(_, _, _, _)
ValueAtPath(h, cur, path, i) ==
    IF i > Len(path) THEN cur
    ELSE IF ~IsRef(cur) THEN Undef
    ELSE ValueAtPath(h, GetProp(h, cur, path[i]), path, i + 1)

\* tree j with the slot at path blanked, every other slot as it is
RECURSIVE JMask(_, _, _)
JMask(j, path, i) ==
    IF i > Len(path) THEN JNull
    ELSE IF j.t = "arr" /\ path[i].t = "idx" /\ path[i].i < Len(j.elems)
    THEN JArr([k \in 1..Len(j.elems) |->
                 IF k = path[i].i + 1 THEN JMask(j.elems[k], path, i + 1) ELSE j.elems[k]])
    ELSE IF j.t = "obj" /\ path[i].t = "key" /\ KidPos(j.kids, path[i].k) # {}
    THEN JObj([k \in 1..Len(j.kids) |->
                 IF j.kids[k].k = path[i].k
                 THEN KV(j.kids[k].k, JMask(j.kids[k].v, path, i + 1)) ELSE j.kids[k]])
    ELSE j
RECURSIVE JMaskAll(_, _)
JMaskAll(j, paths) ==
    IF paths = {} THEN j
    ELSE LET q == CHOOSE x \in paths : TRUE IN JMaskAll(JMask(j, q, 1), paths \ {q})

Returned == call.pc \in {"many", "one"} /\ ~call.threw
InputTree == Stringify(call.heap0, call.doc)
OutputTree == Stringify(heap, call.out)

\* C1: the applicator never modifies its input document: after
\* applyColorsToLottie or applyColorToLottie, whether or not every target
\* resolved, every container of the input document holds what it held before
\* the call, and no container of the returned document is one of the input's.
C1_InputUntouched ==
    call.pc \in {"many", "one"} =>
        /\ \A a \in Reach(call.heap0, call.doc) : heap[a] = call.heap0[a]
        /\ Stringify(heap, call.doc) = InputTree
        /\ Reach(heap, call.out) \cap Reach(call.heap0, call.doc) = {}
C1_Witness ==
    /\ call.pc = "many" /\ ~call.threw /\ call.warned > 0
    /\ OutputTree # InputTree

\* C2 as stated: applyColorsToLottie(doc, []) returns the input document itself.
C2_EmptyBatchReturnsInput ==
    (call.pc = "many" /\ call.changes = <<>>) => call.out = call.doc
\* C2 amended: applyColorsToLottie(doc, []) returns a fresh deep copy of doc:
\* equal to doc leaf for leaf, but another value, none of whose containers is
\* one of doc's.
C2_EmptyBatchReturnsCopy ==
    (call.pc = "many" /\ call.changes = <<>>) =>
        /\ ~call.threw
        /\ call.out # call.doc
        /\ OutputTree = InputTree
        /\ Reach(heap, call.out) \cap Reach(call.heap0, call.doc) = {}
C2_Witness == call.pc = "many" /\ call.changes = <<>> /\ IsRef(call.out)

\* C3: when every target of the batch is an address a scan of the input
\* document yields, the returned document has the structure of the input and
\* differs from it only in the slots the targets name.
C3_OnlyTargetsChange ==
    (call.pc = "many" /\ TargetPaths(call.changes) \subseteq ScannedPaths(call.heap0, call.doc)) =>
        /\ ~call.threw
        /\ JMaskAll(OutputTree, TargetPaths(call.changes))
             = JMaskAll(InputTree, TargetPaths(call.changes))
C3_Witness ==
    /\ call.pc = "many" /\ ~call.threw
    /\ TargetPaths(call.changes) \subseteq ScannedPaths(call.heap0, call.doc)
    /\ Cardinality(TargetPaths(call.changes)) >= 2
    /\ OutputTree # InputTree

\* a segment resolves on a container that has it
SegmentResolves(h, cur, seg) == IsRef(cur) /\ GetProp(h, cur, seg).t # "undef"
\* some segment before the last does not resolve from the root
HasUnresolvedIntermediate(h, root, path) ==
    \E i \in 1..(Len(path) - 1) :
        /\ \A k \in 1..(i - 1) :
              SegmentResolves(h, ValueAtPath(h, root, SubSeq(path, 1, k - 1), 1), path[k])
        /\ ~SegmentResolves(h, ValueAtPath(h, root, SubSeq(path, 1, i - 1), 1), path[i])
\* the batch without target ct
WithoutTarget(changes, ct) ==
    [changes EXCEPT ![ct[1]].targets =
        [i \in 1..(Len(@) - 1) |-> IF i < ct[2] THEN @[i] ELSE @[i + 1]]]

\* C4: when a target has an intermediate segment that does not resolve in the
\* document, applyColorsToLottie does not throw and returns what it returns
\* for the batch without that target.
C4_UnresolvedTargetSkipped ==
    call.pc = "many" =>
        \A ct \in TargetIndex(call.changes) :
            HasUnresolvedIntermediate(call.heap0, call.doc, PathAt(call.changes, ct)) =>
                LET other == applyColorsToLottie(call.heap0, call.doc,
                                                 WithoutTarget(call.changes, ct))
                IN /\ ~call.threw
                   /\ ~other.threw
                   /\ OutputTree = Stringify(other.h, other.out)

\* the target that writes last to its address
LastWriter(changes, ct) ==
    \A other \in TargetIndex(changes) :
        PathAt(changes, other) = PathAt(changes, ct) =>
            (other[1] < ct[1] \/ (other[1] = ct[1] /\ other[2] <= ct[2]))
\* two lowercase hexadecimal digits of the 8-bit value nearest to n / Unit
NearestByte(n) == CHOOSE b \in 0..255 : 1000 * b - 500 <= n /\ n < 1000 * b + 500
TwoHex(b) == <<HexDigits[(b \div 16) + 1], HexDigits[(b % 16) + 1]>>
ExpectedHex(color) ==
    Str(<<"#">> \o TwoHex(NearestByte(color[1])) \o TwoHex(NearestByte(color[2]))
               \o TwoHex(NearestByte(color[3])))
ColorOf(h, v) == IF IsArray(h, v) THEN SpreadColor(h, v) ELSE <<>>

\* C5: the value written depends on the last segment: at 'sc' the slot holds
\* the string '#rrggbb' of the first three components (times 255, rounded to
\* nearest, two lowercase zero-padded digits, alpha dropped); at any other
\* last segment it holds the newColor array itself.
C5_WrittenValueByLastSegment ==
    Returned =>
        \A ct \in (IF call.pc = "one" THEN {<<1, 1>>} ELSE TargetIndex(call.changes)) :
            LET path == PathAt(call.changes, ct)
                newColor == call.changes[ct[1]].newColor
                parent == ValueAtPath(call.heap0, call.doc, SubSeq(path, 1, Len(path) - 1), 1)
                slot == ValueAtPath(heap, call.out, path, 1)
            IN (IsRef(parent) /\ (call.pc = "one" \/ LastWriter(call.changes, ct))) =>
                  IF path[Len(path)] = Key("sc")
                  THEN slot = ExpectedHex(ColorOf(call.heap0, newColor))
                  ELSE slot = newColor
\* [0, 1, 0] written to a solid address gives "#00ff00", next to a fill
\* whose slot holds the array of another change
C5_Witness ==
    /\ call.pc = "many" /\ ~call.threw
    /\ \E c1, c2 \in 1..Len(call.changes) :
          /\ ColorOf(call.heap0, call.changes[c1].newColor) = Green
          /\ ValueAtPath(heap, call.out, PathSolid(1), 1)
                = Str(<<"#", "0", "0", "f", "f", "0", "0">>)
          /\ ColorOf(call.heap0, call.changes[c2].newColor) = Mixed
          /\ ValueAtPath(heap, call.out, PathFill(0, 0), 1) = call.changes[c2].newColor

\* ------------------------------------------------------------------------
\* Properties of the editing hooks
\* ------------------------------------------------------------------------

\* what the hook in use edits: its colours, or the layer colours of its groups
Entities == IF app.hook = "flat" THEN app.colors ELSE LayerColors
LayerColorsAfter == LayersOfGroups(app'.colorGroups, 1)

\* colours of one length, each pair of components less than 0.001 apart
WithinTolerance(a, b) ==
    Len(a) = Len(b) /\ \A i \in 1..Len(a) : 1000 * Abs(a[i] - b[i]) < Unit
\* the positions of the entities whose current differs from their original
Differing == {i \in 1..Len(Entities) : ~WithinTolerance(Entities[i].original, Entities[i].current)}
RECURSIVE Ascending(_)
Ascending(S) ==
    IF S = {} THEN <<>>
    ELSE LET m == CHOOSE x \in S : \A y \in S : x <= y IN <<m>> \o Ascending(S \ {m})

\* C6: getModifiedJson returns null when no original document is loaded; the
\* original document itself when no entity's current differs from its
\* original under the 0.001 tolerance; and otherwise what applyColorsToLottie
\* returns for the original document and the changes made of exactly the
\* differing entities, in their order, each with its targets and its current
\* colour.
C6_GetModifiedJson ==
    call.pc = "getModifiedJson" =>
        LET changed == Ascending(Differing)
            applied == applyColorsToLottie(call.heap0, app.originalJson, call.changes)
        IN IF app.originalJson = Null THEN call.out = Null
           ELSE IF changed = <<>> THEN ~call.threw /\ call.out = app.originalJson
           ELSE /\ Len(call.changes) = Len(changed)
                /\ \A k \in 1..Len(changed) :
                      /\ call.changes[k].targets = Entities[changed[k]].targets
                      /\ ColorOf(call.heap0, call.changes[k].newColor)
                            = Entities[changed[k]].current
                /\ ~call.threw
                /\ ~applied.threw
                /\ call.out # app.originalJson
                /\ Stringify(heap, call.out) = Stringify(applied.h, applied.out)
\* a modified document made from one entity, while another entity was moved
\* by less than the tolerance and is left out
C6_Witness ==
    /\ call.pc = "getModifiedJson" /\ IsRef(call.out) /\ call.out # app.originalJson
    /\ Len(call.changes) = 1
    /\ Stringify(heap, call.out) # Stringify(heap, app.originalJson)
    /\ \E i \in 1..Len(Entities) :
          i \notin Differing /\ Entities[i].current # Entities[i].original

PositionsOfId(entities, id) == {i \in 1..Len(entities) : entities[i].id = id}
PositionsOfGroup(layers, groupId) == {i \in 1..Len(layers) : layers[i].groupId = groupId}
\* the entities at these positions have their original as current
RestoredAt(before, after, positions) ==
    /\ Len(after) = Len(before)
    /\ \A i \in positions :
          after[i].original = before[i].original /\ after[i].current = before[i].original

\* C7: whatever updates came before, a reset (resetColor, resetLayerColor,
\* resetGroupColor on its group, resetAllColors of either hook) leaves the
\* current of every entity it addresses exactly equal to its original.
C7_ResetRestoresOriginal ==
    [][ /\ \A id \in FlatIds :
              ResetColor(id) =>
                  RestoredAt(app.colors, app'.colors, PositionsOfId(app.colors, id))
        /\ ResetAllColors => RestoredAt(app.colors, app'.colors, 1..Len(app.colors))
        /\ \A id \in LayerColorIds :
              ResetLayerColor(id) =>
                  RestoredAt(LayerColors, LayerColorsAfter, PositionsOfId(LayerColors, id))
        /\ \A groupId \in GroupIds :
              ResetGroupColor(groupId) =>
                  RestoredAt(LayerColors, LayerColorsAfter,
                             PositionsOfGroup(LayerColors, groupId))
        /\ ResetAllLayerColors =>
              RestoredAt(LayerColors, LayerColorsAfter, 1..Len(LayerColors)) ]_vars
\* a reset of an entity that had been changed, another one being still changed
C7_Witness ==
    /\ call.pc \in {"resetColor", "resetLayerColor", "resetGroupColor"} /\ call.dirty
    /\ \E i, j \in 1..Len(Entities) :
          /\ Entities[i].current = Entities[i].original
          /\ Entities[j].current # Entities[j].original

\* the entities differ from before at most in the current of those at positions
OnlyCurrentAt(before, after, positions) ==
    /\ Len(after) = Len(before)
    /\ \A i \in 1..Len(before) :
          /\ [after[i] EXCEPT !.current = before[i].current] = before[i]
          /\ i \notin positions => after[i] = before[i]
\* the original document is the same value and holds what it held
DocumentKept ==
    /\ app'.originalJson = app.originalJson
    /\ Stringify(heap', app'.originalJson) = Stringify(heap, app.originalJson)
\* a step of useLottieColors that changes at most the current of the
\* entities at positions
FlatFrame(positions) ==
    /\ OnlyCurrentAt(app.colors, app'.colors, positions)
    /\ [app' EXCEPT !.colors = app.colors] = app
    /\ DocumentKept
\* a step of useLottieColorGroups that changes at most the current of the
\* layer colours at positions
LayerFrame(positions) ==
    /\ Len(app'.colorGroups) = Len(app.colorGroups)
    /\ \A g \in 1..Len(app.colorGroups) :
          /\ [app'.colorGroups[g] EXCEPT !.layers = app.colorGroups[g].layers]
                = app.colorGroups[g]
          /\ Len(app'.colorGroups[g].layers) = Len(app.colorGroups[g].layers)
    /\ OnlyCurrentAt(LayerColors, LayerColorsAfter, positions)
    /\ [app' EXCEPT !.colorGroups = app.colorGroups] = app
    /\ DocumentKept

\* C8: an update or a reset with an id changes only the current of the
\* entities (layer colours; for a group id, the layer colours of that group)
\* with that id: the id, original, targets and type of every entity, the
\* current of every other entity, the original document and the selection
\* are what they were.
C8_UpdateResetFrame ==
    [][ /\ \A i \in 1..Len(app.colors) :
              /\ \A newColor \in NewColorsFor(app.colors[i].original) :
                    UpdateColor(app.colors[i].id, newColor) =>
                        FlatFrame(PositionsOfId(app.colors, app.colors[i].id))
              /\ ResetColor(app.colors[i].id) =>
                    FlatFrame(PositionsOfId(app.colors, app.colors[i].id))
        /\ \A i \in 1..Len(LayerColors) :
              /\ \A newColor \in NewColorsFor(LayerColors[i].original) :
                    UpdateLayerColor(LayerColors[i].id, newColor) =>
                        LayerFrame(PositionsOfId(LayerColors, LayerColors[i].id))
              /\ ResetLayerColor(LayerColors[i].id) =>
                    LayerFrame(PositionsOfId(LayerColors, LayerColors[i].id))
        /\ \A g \in 1..Len(app.colorGroups) :
              /\ \A newColor \in NewColorsFor(app.colorGroups[g].originalColor) :
                    UpdateGroupColor(app.colorGroups[g].id, newColor) =>
                        LayerFrame(PositionsOfGroup(LayerColors, app.colorGroups[g].id))
              /\ ResetGroupColor(app.colorGroups[g].id) =>
                    LayerFrame(PositionsOfGroup(LayerColors, app.colorGroups[g].id)) ]_vars
\* an update of one entity next to an entity of another id that is untouched
C8_Witness ==
    /\ call.pc \in {"updateColor", "updateLayerColor"}
    /\ \E i, j \in 1..Len(Entities) :
          /\ Entities[i].id # Entities[j].id
          /\ Entities[i].current # Entities[i].original
          /\ Entities[j].current = Entities[j].original


\* ------------------------------------------------------------------------
\* Properties of the groupings
\* ------------------------------------------------------------------------

ScanOf == RawColors(heap, call.doc).colors

\* the <<entity, target>> positions of a flat grouping
FlatPositions(entities) ==
    UNION {{<<e, t>> : t \in 1..Len(entities[e].targets)} : e \in 1..Len(entities)}
\* the <<group, layer-colour, target>> positions of a hierarchical grouping
GroupPositions(groups) ==
    UNION {UNION {{<<g, l, t>> : t \in 1..Len(groups[g].layers[l].targets)} :
                     l \in 1..Len(groups[g].layers)} : g \in 1..Len(groups)}

\* C9: the entities of the flat grouping partition the scanned addresses:
\* the address of every extracted occurrence is among the targets of exactly
\* one entity, exactly once, and there are as many targets as occurrences.
C9_FlatPartition ==
    call.pc = "flat" =>
        LET raw == ScanOf
            ents == call.entities
        IN /\ ~call.threw
           /\ \A i \in 1..Len(raw) :
                 Cardinality({q \in FlatPositions(ents) :
                                 ents[q[1]].targets[q[2]].path = raw[i].path}) = 1
           /\ \A q, r \in FlatPositions(ents) :
                 q # r => ents[q[1]].targets[q[2]].path # ents[r[1]].targets[r[2]].path
           /\ Cardinality(FlatPositions(ents)) = Len(raw)
C9_Witness ==
    /\ call.pc = "flat" /\ ~call.threw
    /\ Len(call.entities) >= 2
    /\ \E e \in 1..Len(call.entities) : Len(call.entities[e].targets) >= 2

\* C10: the hierarchical grouping places every extracted address in exactly
\* one layer-colour of exactly one group; in a group no two layer-colours have
\* the same layerName; every target of a layer-colour comes from a layer of
\* that layerName; every layer-colour's groupId is the id of its group.
C10_HierarchicalPartition ==
    call.pc = "groups" =>
        LET raw == ScanOf
            groups == call.entities
            TargetAt(q) == groups[q[1]].layers[q[2]].targets[q[3]]
        IN /\ ~call.threw
           /\ \A i \in 1..Len(raw) :
                 Cardinality({q \in GroupPositions(groups) :
                                 TargetAt(q).path = raw[i].path}) = 1
           /\ Cardinality(GroupPositions(groups)) = Len(raw)
           /\ \A g \in 1..Len(groups) : \A l, m \in 1..Len(groups[g].layers) :
                 l # m => groups[g].layers[l].layerName # groups[g].layers[m].layerName
           /\ \A q \in GroupPositions(groups) : \A i \in 1..Len(raw) :
                 raw[i].path = TargetAt(q).path =>
                    raw[i].layerName = groups[q[1]].layers[q[2]].layerName
           /\ \A g \in 1..Len(groups) : \A l \in 1..Len(groups[g].layers) :
                 groups[g].layers[l].groupId = groups[g].id

\* ------------------------------------------------------------------------
\* Properties of the scan
\* ------------------------------------------------------------------------

\* the document of the call as the tree its text denotes
DocTree == Stringify(call.heap0, call.doc)

\* the field k of an object tree j; JMissing when j has none
JMissing == [t |-> "undef", n |-> 0, s |-> <<>>, kids |-> <<>>, elems |-> <<>>, size |-> 0]
JField(j, k) ==
    IF j.t = "obj" /\ KidPos(j.kids, k) # {}
    THEN j.kids[CHOOSE i \in KidPos(j.kids, k) : TRUE].v
    ELSE JMissing

\* the layers of the list `layers` of tree j, each with its address
JLayersOf(j, prefix) ==
    IF JField(j, "layers").t # "arr" THEN {}
    ELSE {[path |-> prefix \o <<Key("layers"), Idx(i - 1)>>, node |-> JField(j, "layers").elems[i]] :
             i \in 1..Len(JField(j, "layers").elems)}
\* the layers of the document and of its precomposition assets
JAllLayers(doc) ==
    JLayersOf(doc, <<>>)
      \cup (IF JField(doc, "assets").t # "arr" THEN {}
            ELSE UNION {JLayersOf(JField(doc, "assets").elems[i], <<Key("assets"), Idx(i - 1)>>) :
                           i \in 1..Len(JField(doc, "assets").elems)})

\* the shapes of a shape list at path, groups replaced by their items
RECURSIVE JShapes(_, _)
JShapes(list, path) ==
    IF list.t # "arr" THEN {}
    ELSE UNION {
        IF JField(list.elems[i], "ty") = JStr(<<"g", "r">>) /\ JField(list.elems[i], "it").t = "arr"
        THEN JShapes(JField(list.elems[i], "it"), path \o <<Idx(i - 1), Key("it")>>)
        ELSE {[path |-> Append(path, Idx(i - 1)), node |-> list.elems[i]]} :
            i \in 1..Len(list.elems)}
\* the shapes of the shape layers (ty 4) of a document
JAllShapes(doc) ==
    UNION {JShapes(JField(l.node, "shapes"), Append(l.path, Key("shapes"))) :
              l \in {x \in JAllLayers(doc) : JField(x.node, "ty") = JInt(4)}}

\* a colour property with a = 0 and k a list of 3 or 4 numbers in [0, 1]
JStaticColor(c) ==
    /\ c.t = "obj"
    /\ JField(c, "a") = JInt(0)
    /\ JField(c, "k").t = "arr"
    /\ Len(JField(c, "k").elems) \in {3, 4}
    /\ \A i \in 1..Len(JField(c, "k").elems) :
          /\ JField(c, "k").elems[i].t = "num"
          /\ JField(c, "k").elems[i].n >= 0
          /\ JField(c, "k").elems[i].n <= Unit
KindOfShape(node) ==
    IF JField(node, "ty") = JStr(<<"f", "l">>) THEN "fill"
    ELSE IF JField(node, "ty") = JStr(<<"s", "t">>) THEN "stroke"
    ELSE "none"
\* the fills and strokes of the document whose colour is static
StaticShapes(doc) ==
    {x \in JAllShapes(doc) : KindOfShape(x.node) # "none" /\ JStaticColor(JField(x.node, "c"))}
\* the occurrences a flat grouping holds: address and kind of every target
FlatOccurrences(entities) ==
    {[path |-> entities[q[1]].targets[q[2]].path, type |-> entities[q[1]].type] :
        q \in FlatPositions(entities)}

\* C11: a fill or stroke colour is extracted exactly when it is static: the
\* fill and stroke occurrences of a scan are the fills ('fl') and strokes
\* ('st') whose colour property has a = 0 and a k of 3 or 4 numbers in
\* [0, 1], one occurrence each, addressed at [..., 'c', 'k']; keyframed
\* colours, lists of another length and components out of range give no
\* occurrence and no error.
C11_StaticColoursOnly ==
    call.pc = "flat" =>
        /\ ~call.threw
        /\ {o \in FlatOccurrences(call.entities) : o.type # "solid"}
              = {[path |-> x.path \o <<Key("c"), Key("k")>>, type |-> KindOfShape(x.node)] :
                    x \in StaticShapes(DocTree)}
        /\ Cardinality({i \in 1..Len(ScanOf) : ScanOf[i].type # "solid"})
              = Cardinality(StaticShapes(DocTree))
\* a layer with one static and one keyframed fill gives one occurrence
C11_Witness ==
    /\ call.pc = "flat" /\ ~call.threw
    /\ DocTree = DocKeyframed
    /\ Len(call.entities) = 1
    /\ Len(call.entities[1].targets) = 1
    /\ call.entities[1].targets[1].path = PathFill(0, 0)

\* the tree found by indexing from tree j along path, JMissing when a
\* segment names nothing
RECURSIVE JAt(_, _, _)
JAt(j, path, i) ==
    IF i > Len(path) THEN j
    ELSE IF path[i].t = "idx"
    THEN IF j.t = "arr" /\ path[i].i >= 0 /\ path[i].i < Len(j.elems)
         THEN JAt(j.elems[path[i].i + 1], path, i + 1) ELSE JMissing
    ELSE JAt(JField(j, path[i].k), path, i + 1)

\* the slot holds the colour of the occurrence: the list of its numbers,
\* or for a solid layer a hex string that denotes it
HoldsColour(leaf, occurrence) ==
    IF occurrence.type = "solid"
    THEN leaf.t = "str" /\ HexMatch(leaf.s) # <<>> /\ SolidColor(HexMatch(leaf.s)) = occurrence.color
    ELSE leaf = JColor(occurrence.color)

\* C12: every address a scan emits resolves, by indexing from the root of
\* the scanned document segment by segment, to an existing slot, and the
\* slot holds the colour of the occurrence (the k list of a fill or stroke,
\* the hex string of a solid layer); so do the addresses of occurrences in
\* precomposition assets, which begin with 'assets', assetIndex.
C12_AddressesResolve ==
    call.pc = "flat" =>
        /\ ~call.threw
        /\ \A i \in 1..Len(ScanOf) :
              /\ JAt(DocTree, ScanOf[i].path, 1) # JMissing
              /\ HoldsColour(JAt(DocTree, ScanOf[i].path, 1), ScanOf[i])
        /\ \A o \in FlatOccurrences(call.entities) :
              \E i \in 1..Len(ScanOf) : ScanOf[i].path = o.path /\ ScanOf[i].type = o.type
C12_Witness ==
    /\ call.pc = "flat" /\ ~call.threw
    /\ \E o \in FlatOccurrences(call.entities) :
          /\ o.path = <<Key("assets"), Idx(0), Key("layers"), Idx(0), Key("sc")>>
          /\ JAt(DocTree, o.path, 1) = JStr(<<"0", "0", "f", "f", "0", "0">>)
    /\ \E o \in FlatOccurrences(call.entities) :
          /\ o.path = <<Key("layers"), Idx(0), Key("shapes"), Idx(0), Key("it"), Idx(0),
                        Key("c"), Key("k")>>
          /\ JAt(DocTree, o.path, 1) = JColor(Blue)

\* the document is absent or not an object, or its layers is not a list
NotWellFormed(doc) == doc.t \notin {"obj", "arr"} \/ JField(doc, "layers").t # "arr"

\* C13: for a document that is absent, not an object, or whose layers field
\* is absent or not an array, both groupings return an empty list and raise
\* no error, whatever else the document holds.
C13_MalformedGivesEmpty ==
    (call.pc \in {"flat", "groups"} /\ NotWellFormed(DocTree)) =>
        ~call.threw /\ call.entities = <<>>

\* the occurrence of the scan at this address
ScannedAt(path) == ScanOf[CHOOSE i \in 1..Len(ScanOf) : ScanOf[i].path = path]

\* C14: in every ColorGroup of the hierarchical grouping the original of
\* each LayerColor is tolerance-equal to the group's originalColor (same
\* length, every component less than 0.001 apart), and every occurrence
\* merged into an entity of the flat grouping is tolerance-equal to the
\* entity's original.
C14_MergedWithinTolerance ==
    /\ (call.pc = "groups" /\ ~call.threw) =>
          \A g \in 1..Len(call.entities) : \A l \in 1..Len(call.entities[g].layers) :
              WithinTolerance(call.entities[g].layers[l].original,
                              call.entities[g].originalColor)
    /\ (call.pc = "flat" /\ ~call.threw) =>
          \A q \in FlatPositions(call.entities) :
              WithinTolerance(ScannedAt(call.entities[q[1]].targets[q[2]].path).color,
                              call.entities[q[1]].original)
\* a group holds two layer colours whose originals differ, and so does an
\* entity hold an occurrence that differs from its original
C14_Witness ==
    \/ /\ call.pc = "groups" /\ ~call.threw
       /\ \E g \in 1..Len(call.entities) : \E l \in 1..Len(call.entities[g].layers) :
             call.entities[g].layers[l].original # call.entities[g].originalColor
    \/ /\ call.pc = "flat" /\ ~call.threw
       /\ \E q \in FlatPositions(call.entities) :
             ScannedAt(call.entities[q[1]].targets[q[2]].path).color
                # call.entities[q[1]].original

\* the occurrences of the scan of one kind and colorKey, by their positions
Cluster(k) == {i \in 1..Len(ScanOf) : GroupKey(ScanOf[i]) = k}
ClusterKeys == {GroupKey(ScanOf[i]) : i \in 1..Len(ScanOf)}
ClusterPaths(k) == {ScanOf[i].path : i \in Cluster(k)}
\* the layer an address lies in: the address up to the layer's index
LayerOf(path) == IF path[1] = Key("assets") THEN SubSeq(path, 1, 4) ELSE SubSeq(path, 1, 2)
\* the addresses a group holds and the addresses a layer colour holds
LayerColorPaths(lc) == {lc.targets[t].path : t \in 1..Len(lc.targets)}
GroupPaths(group) == UNION {LayerColorPaths(group.layers[l]) : l \in 1..Len(group.layers)}
\* the entities of a flat grouping, and the groups of a hierarchical one,
\* that hold exactly the addresses of cluster k
EntitiesOfCluster(k) ==
    {e \in 1..Len(call.entities) : LayerColorPaths(call.entities[e]) = ClusterPaths(k)}
GroupsOfCluster(k) ==
    {g \in 1..Len(call.entities) : GroupPaths(call.entities[g]) = ClusterPaths(k)}
FlatOwnsCluster ==
    call.pc = "flat" =>
        ~call.threw /\ \A k \in ClusterKeys : Cardinality(EntitiesOfCluster(k)) = 1

RECURSIVE IdsOfGroups(_, _)
IdsOfGroups(groups, g) ==
    IF g > Len(groups) THEN <<>>
    ELSE <<groups[g].id>>
           \o [l \in 1..Len(groups[g].layers) |-> groups[g].layers[l].id]
           \o IdsOfGroups(groups, g + 1)
AssignedIds ==
    IF call.pc = "flat" THEN [e \in 1..Len(call.entities) |-> call.entities[e].id]
    ELSE IdsOfGroups(call.entities, 1)

\* C16: within one call of the flat or of the hierarchical grouping all ids
\* assigned (entity ids, group ids and layer-colour ids) are pairwise
\* distinct.
C16_IdsDistinct ==
    (call.pc \in {"flat", "groups"} /\ ~call.threw) =>
        \A i, j \in 1..Len(AssignedIds) : i # j => AssignedIds[i] # AssignedIds[j]

\* the hex digits in upper case, and the value of a hex digit of either case
HexDigitsUpper == <<"0", "1", "2", "3", "4", "5", "6", "7", "8", "9",
                    "A", "B", "C", "D", "E", "F">>
IsHexDigit(ch) == \E d \in 1..16 : HexDigits[d] = ch \/ HexDigitsUpper[d] = ch
DigitValue(ch) == (CHOOSE d \in 1..16 : HexDigits[d] = ch \/ HexDigitsUpper[d] = ch) - 1
\* six hex digits, after a '#' or not
SixDigits(chars) ==
    IF Len(chars) = 7 /\ chars[1] = "#" THEN SubSeq(chars, 2, 7) ELSE chars
IsHexColour(chars) ==
    /\ Len(chars) \in {6, 7}
    /\ Len(chars) = 7 => chars[1] = "#"
    /\ Len(SixDigits(chars)) = 6
    /\ \A i \in 1..6 : IsHexDigit(SixDigits(chars)[i])
\* [r/255, g/255, b/255, 1] for the bytes r, g, b the digits denote
ByteAt(digits, i) == 16 * DigitValue(digits[i]) + DigitValue(digits[i + 1])
HexColour(chars) ==
    <<ByteAt(SixDigits(chars), 1) * 1000, ByteAt(SixDigits(chars), 3) * 1000,
      ByteAt(SixDigits(chars), 5) * 1000, Unit>>
\* the occurrences of the scan that lie in the layer at layerPath
ScannedInLayer(layerPath) == {i \in 1..Len(ScanOf) : LayerOf(ScanOf[i].path) = layerPath}

\* C17: a solid layer (ty 1) whose sc is a string of six hex digits of
\* either case, after a '#' or not, gives exactly one occurrence, of kind
\* solid, addressed at the layer's sc, with colour [r/255, g/255, b/255, 1];
\* a solid layer whose sc is missing, not a string or not of that form
\* gives no occurrence, and no error.
C17_SolidLayers ==
    call.pc = "flat" =>
        /\ ~call.threw
        /\ \A layer \in {x \in JAllLayers(DocTree) : JField(x.node, "ty") = JInt(1)} :
              IF JField(layer.node, "sc").t = "str" /\ IsHexColour(JField(layer.node, "sc").s)
              THEN /\ Cardinality(ScannedInLayer(layer.path)) = 1
                   /\ \A i \in ScannedInLayer(layer.path) :
                         /\ ScanOf[i].type = "solid"
                         /\ ScanOf[i].path = Append(layer.path, Key("sc"))
                         /\ ScanOf[i].color = HexColour(JField(layer.node, "sc").s)
                         /\ [path |-> ScanOf[i].path, type |-> "solid"]
                               \in FlatOccurrences(call.entities)
              ELSE ScannedInLayer(layer.path) = {}
C17_Witness ==
    /\ call.pc = "flat" /\ ~call.threw
    /\ DocTree = DocSolids
    /\ Len(ScanOf) = 2
    /\ ScanOf[1].color = <<171000, 205000, 239000, Unit>>
    /\ ScanOf[2].color = <<Unit, 0, 9000, Unit>>
    /\ Len(call.entities) = 2

\* The partition a call returned: the address sets of the entities, or of
\* the groups and of their layer colours, with kind and colorKey
FlatPartition ==
    {[paths |-> LayerColorPaths(call.entities[e]), type |-> call.entities[e].type,
      key |-> colorToKey(call.entities[e].original)] : e \in 1..Len(call.entities)}
LayerPartition(group) ==
    {[paths |-> LayerColorPaths(group.layers[l]), layerName |-> group.layers[l].layerName] :
        l \in 1..Len(group.layers)}
GroupPartition ==
    {[paths |-> GroupPaths(call.entities[g]), type |-> call.entities[g].type,
      key |-> colorToKey(call.entities[g].originalColor),
      layers |-> LayerPartition(call.entities[g])] : g \in 1..Len(call.entities)}

\* C18: scanning and grouping one document twice gives the same partition
\* of its addresses, whatever ids the two runs generate: the second run of
\* either grouping throws exactly if the first did, and returns the same
\* set of address sets with the same kinds and colorKeys (for groups, the
\* same layer colours inside).
C18_SamePartitionTwice ==
    [][ /\ (call.pc \in {"flat", "flatAgain"} /\ call'.pc = "flatAgain")
              => (call'.threw = call.threw /\ FlatPartition' = FlatPartition)
        /\ (call.pc \in {"groups", "groupsAgain"} /\ call'.pc = "groupsAgain")
              => (call'.threw = call.threw /\ GroupPartition' = GroupPartition) ]_vars
\* a second run whose ids collide, on a document with several clusters
C18_Witness ==
    /\ call.pc = "flatAgain" /\ ~call.threw
    /\ Len(call.entities) >= 2
    /\ call.entities[1].id = call.entities[2].id
    /\ \E e \in 1..Len(call.entities) : Len(call.entities[e].targets) >= 2

\* the addresses two or more targets of the batch name
NamedTwice(changes) ==
    {PathAt(changes, ct) : ct \in {x \in TargetIndex(changes) :
        \E y \in TargetIndex(changes) : y # x /\ PathAt(changes, y) = PathAt(changes, x)}}
\* what the text of the result shows where the colour was written
WrittenTree(path, color) ==
    IF path[Len(path)] = Key("sc") THEN JStr(ExpectedHex(color).s) ELSE JColor(color)

\* C19: when two changes of a batch, or two targets of one change, name the
\* same address, the returned document holds there the value of the one
\* that comes later in the batch.
C19_LaterChangeWins ==
    (call.pc = "many" /\ ~call.threw) =>
        \A path \in NamedTwice(call.changes) :
            IsRef(ValueAtPath(call.heap0, call.doc, SubSeq(path, 1, Len(path) - 1), 1)) =>
                \A ct \in TargetIndex(call.changes) :
                    (PathAt(call.changes, ct) = path /\ LastWriter(call.changes, ct)) =>
                        JAt(OutputTree, path, 1)
                            = WrittenTree(path, ColorOf(call.heap0, call.changes[ct[1]].newColor))
\* green then the mixed colour written to one solid address
C19_Witness ==
    /\ call.pc = "many" /\ ~call.threw
    /\ Len(call.changes) = 2
    /\ PathAt(call.changes, <<1, 1>>) = PathSolid(1)
    /\ PathAt(call.changes, <<2, 1>>) = PathSolid(1)
    /\ ColorOf(call.heap0, call.changes[1].newColor) = Green
    /\ ColorOf(call.heap0, call.changes[2].newColor) = Mixed
    /\ JAt(OutputTree, PathSolid(1), 1) = JStr(<<"#", "8", "0", "0", "9", "f", "e">>)

\* ------------------------------------------------------------------------
\* Properties of the colour conversions
\* ------------------------------------------------------------------------

\* the channels of the colour converted are all equal
Achromatic == call.doc.r = call.doc.g /\ call.doc.g = call.doc.b

\* C20 as stated: for every 8-bit RGB colour rgbToHsl returns an integer h
\* with 0 <= h < 360 and integers s and l from 0 to 100, and h is 0 when
\* the largest and the smallest channel are equal.
C20_HslRanges ==
    call.pc = "hsl" =>
        /\ call.out.h \in 0..359
        /\ call.out.s \in 0..100
        /\ call.out.l \in 0..100
        /\ Achromatic => call.out.h = 0

\* C20 amended: h is an integer with 0 <= h <= 360, and it is 360 only for
\* a colour whose largest channel is red and whose blue exceeds its green;
\* s and l are integers from 0 to 100; h is 0 when the largest and the
\* smallest channel are equal.
C20_HslRangesClosed ==
    call.pc = "hsl" =>
        /\ call.out.h \in 0..360
        /\ call.out.h = 360 =>
              (call.doc.r >= call.doc.b /\ call.doc.b > call.doc.g)
        /\ call.out.s \in 0..100
        /\ call.out.l \in 0..100
        /\ Achromatic => call.out.h = 0
\* (255, 0, 1): the hue 359.76 rounds to 360
C20_Witness ==
    /\ call.pc = "hsl"
    /\ call.doc.r = 255 /\ call.doc.g = 0 /\ call.doc.b = 1
    /\ call.out.h = 360 /\ call.out.s = 100 /\ call.out.l = 50

\* C21: for every 8-bit RGB colour x, hslToRgb(rgbToHsl(x)) differs from x
\* by at most 1 in each of the channels r, g and b.
C21_RoundTripWithinOne ==
    call.pc = "rgbOfHsl" =>
        /\ Abs(call.out.r - call.doc.r) <= 1
        /\ Abs(call.out.g - call.doc.g) <= 1
        /\ Abs(call.out.b - call.doc.b) <= 1

\* the lowercase hexadecimal digits
LowerHex == {"0", "1", "2", "3", "4", "5", "6", "7", "8", "9", "a", "b", "c", "d", "e", "f"}
\* the string rgbToHex returned
HexOut == IF call.pc = "hex" THEN call.out.s ELSE call.entities[1].s

\* C22: for every RGB colour x with integer channels in 0..255,
\* rgbToHex(x) is '#' followed by exactly six lowercase hex digits, two
\* zero-padded digits per channel, and hexToRgb(rgbToHex(x)) returns
\* exactly the r, g and b of x.
C22_HexRoundTrip ==
    /\ call.pc \in {"hex", "rgbOfHex"} =>
          /\ Len(HexOut) = 7
          /\ HexOut[1] = "#"
          /\ \A i \in 2..7 : HexOut[i] \in LowerHex
          /\ ByteAt(HexOut, 2) = call.doc.r
          /\ ByteAt(HexOut, 4) = call.doc.g
          /\ ByteAt(HexOut, 6) = call.doc.b
    /\ call.pc = "rgbOfHex" =>
          /\ ~call.threw
          /\ call.out.r = call.doc.r
          /\ call.out.g = call.doc.g
          /\ call.out.b = call.doc.b
\* r = 191, g = 37, b = 37 gives "#bf2525" and comes back
C22_Witness ==
    /\ call.pc = "rgbOfHex"
    /\ call.doc.r = 191 /\ call.doc.g = 37 /\ call.doc.b = 37
    /\ HexOut = <<"#", "b", "f", "2", "5", "2", "5">>
    /\ call.out.r = 191 /\ call.out.g = 37 /\ call.out.b = 37

\* the positions both colours compared have
SharedPositions == 1..Min3(Len(call.changes[1]), Len(call.changes[2]), 4)

\* C23: colorsEqual with the default tolerance is reflexive and symmetric,
\* false whenever the two colours have different lengths, and false when
\* some pair of components differs by exactly the tolerance.
C23_ColorsEqual ==
    call.pc = "equal" =>
        /\ call.out.self
        /\ call.out.forth = call.out.back
        /\ Len(call.changes[1]) # Len(call.changes[2]) => ~call.out.forth
        /\ (\E i \in SharedPositions :
               Abs(call.changes[1][i] - call.changes[2][i]) = Tolerance) => ~call.out.forth
\* two colours of one length with one pair of components exactly the
\* tolerance apart and every other pair closer than that
C23_Witness ==
    /\ call.pc = "equal"
    /\ Len(call.changes[1]) = Len(call.changes[2])
    /\ \E i \in SharedPositions :
          /\ Abs(call.changes[1][i] - call.changes[2][i]) = Tolerance
          /\ \A j \in SharedPositions \ {i} :
                Abs(call.changes[1][j] - call.changes[2][j]) < Tolerance
    /\ ~call.out.forth /\ ~call.out.back /\ call.out.self

\* the occurrences of the scan addressed at path
ScannedAtPath(path) == {i \in 1..Len(ScanOf) : ScanOf[i].path = path}
\* the ty of the shape that holds the colour an occurrence addresses at
\* [..., 'c', 'k']
ShapeTypeOf(occurrence) ==
    JField(JAt(DocTree, SubSeq(occurrence.path, 1, Len(occurrence.path) - 2), 1), "ty")
\* the number of 'it' segments of an address: the groups it passes through
Depth(path) == Cardinality({i \in 1..Len(path) : path[i] = Key("it")})

\* C24: in a shape layer the scan records exactly one occurrence for every
\* static fill or stroke reachable through any depth of nested groups, the
\* address extended by the shape index and 'it' at every group, and records
\* no occurrence for a group itself nor for a gradient fill ('gf') or
\* gradient stroke ('gs').
C24_NestedShapes ==
    call.pc = "flat" =>
        /\ \A x \in StaticShapes(DocTree) :
              Cardinality(ScannedAtPath(x.path \o <<Key("c"), Key("k")>>)) = 1
        /\ \A i \in 1..Len(ScanOf) :
              ScanOf[i].type # "solid" =>
                  /\ ShapeTypeOf(ScanOf[i]) \in {JStr(<<"f", "l">>), JStr(<<"s", "t">>)}
                  /\ \E x \in StaticShapes(DocTree) :
                        ScanOf[i].path = x.path \o <<Key("c"), Key("k")>>
\* groups nested three deep: the fill at depth 2, the stroke at depth 3
\* and the stroke at depth 1 are recorded, and nothing else
C24_Witness ==
    /\ call.pc = "flat" /\ ~call.threw
    /\ DocTree = DocDeep
    /\ Len(ScanOf) = 3
    /\ {Depth(ScanOf[i].path) : i \in 1..3} = {1, 2, 3}
    /\ \E i \in 1..3 :
          ScanOf[i].path = <<Key("layers"), Idx(0), Key("shapes"), Idx(0), Key("it"), Idx(1),
                             Key("it"), Idx(2), Key("it"), Idx(0), Key("c"), Key("k")>>

\* ------------------------------------------------------------------------
\* Properties of the selection of useLottieColorGroups
\* ------------------------------------------------------------------------

\* C29: in useLottieColorGroups, after any sequence of document loads and
\* of calls of selectLayerColor and selectGroupForBatchEdit, isBatchEditMode
\* is true exactly when selectedGroupId is not null, and
\* selectedLayerColorId and selectedGroupId are never both not null.
C29_SelectionModes ==
    app.hook = "groups" =>
        /\ app.isBatchEditMode <=> app.selectedGroupId # Null
        /\ ~(app.selectedLayerColorId # Null /\ app.selectedGroupId # Null)
\* a group selected for batch editing stays selected when a document
\* without colours is loaded after it
C29_Witness ==
    /\ app.hook = "groups" /\ Ready
    /\ app.lottieJson # Null
    /\ app.colorGroups = <<>>
    /\ app.isBatchEditMode
    /\ app.selectedGroupId # Null
    /\ app.selectedLayerColorId = Null

\* ------------------------------------------------------------------------
\* Agreement of the two groupings
\* ------------------------------------------------------------------------

\* the targets an entity or a layer colour holds, and those of a group
TargetSet(lc) == {lc.targets[t] : t \in 1..Len(lc.targets)}
GroupTargetSet(group) == UNION {TargetSet(group.layers[l]) : l \in 1..Len(group.layers)}
\* a ColorEntity and a ColorGroup of the same kind and colorKey
SameKindAndKey(entity, group) ==
    /\ entity.type = group.type
    /\ colorToKey(entity.original) = colorToKey(group.originalColor)
\* every entity has exactly one group of its kind and colorKey, and every
\* group exactly one entity, the two with the same targets and original
Agree(entities, groups) ==
    /\ \A e \in 1..Len(entities) :
          Cardinality({g \in 1..Len(groups) : SameKindAndKey(entities[e], groups[g])}) = 1
    /\ \A g \in 1..Len(groups) :
          Cardinality({e \in 1..Len(entities) : SameKindAndKey(entities[e], groups[g])}) = 1
    /\ \A e \in 1..Len(entities) : \A g \in 1..Len(groups) :
          SameKindAndKey(entities[e], groups[g]) =>
              /\ GroupTargetSet(groups[g]) = TargetSet(entities[e])
              /\ groups[g].originalColor = entities[e].original

\* C30: the flat and the hierarchical grouping of one document agree: the
\* ColorEntities and the ColorGroups correspond one to one by kind and
\* colorKey, and for each pair the union of the targets of the group's
\* LayerColors is the entity's targets and the group's originalColor is the
\* entity's original.
C30_GroupingsAgree ==
    call.pc = "both" => ~call.threw /\ Agree(call.entities, call.out)
\* the groupings agree whenever neither throws
AgreeUnlessThrown ==
    (call.pc = "both" /\ ~call.threw) => Agree(call.entities, call.out)

\* ------------------------------------------------------------------------
\* Properties of the App: the player's src and the colours edited
\* ------------------------------------------------------------------------

\* the entities the editor of a state shows
EntitiesOf(a) == IF a.hook = "flat" THEN a.colors ELSE LayersOfGroups(a.colorGroups, 1)
\* the positions of the entities whose current differs from their original
\* by 0.001 or more in a component
DifferingOf(a) ==
    {i \in 1..Len(EntitiesOf(a)) :
        ~WithinTolerance(EntitiesOf(a)[i].original, EntitiesOf(a)[i].current)}

\* the tree j with v in place of what path names
RECURSIVE JPut(_, _, _, _)
JPut(j, path, i, v) ==
    IF i > Len(path) THEN v
    ELSE IF j.t = "arr" /\ path[i].t = "idx" /\ path[i].i < Len(j.elems)
    THEN JArr([k \in 1..Len(j.elems) |->
                 IF k = path[i].i + 1 THEN JPut(j.elems[k], path, i + 1, v) ELSE j.elems[k]])
    ELSE IF j.t = "obj" /\ path[i].t = "key" /\ KidPos(j.kids, path[i].k) # {}
    THEN JObj([k \in 1..Len(j.kids) |->
                 IF j.kids[k].k = path[i].k
                 THEN KV(j.kids[k].k, JPut(j.kids[k].v, path, i + 1, v)) ELSE j.kids[k]])
    ELSE j
RECURSIVE JPutAll(_, _)
JPutAll(j, writes) ==
    IF writes = {} THEN j
    ELSE JPutAll(JPut(j, (CHOOSE w \in writes : TRUE)[1], 1, (CHOOSE w \in writes : TRUE)[2]),
                 writes \ {CHOOSE w \in writes : TRUE})
\* the current colour of every differing entity, at each of its targets
WritesOf(a) ==
    UNION {{<<EntitiesOf(a)[i].targets[t].path,
              WrittenTree(EntitiesOf(a)[i].targets[t].path, EntitiesOf(a)[i].current)>> :
               t \in 1..Len(EntitiesOf(a)[i].targets)} : i \in DifferingOf(a)}
\* the document of the file loaded with the current colours of a applied
CurrentDocument(a) == JPutAll(a.fileData.file, WritesOf(a))

\* no drag is in progress and every effect has run
Settled ==
    /\ AppMounted /\ app.fileData.loaded /\ app.lottieJson # Null
    /\ ~app.isSliderDragging /\ ~app.pending /\ ~app.due

\* C25: in the App, whenever no slider drag is in progress and all pending
\* effects have run, the player's src encodes the original document with
\* the current colours applied; after an edit was shown and the colours
\* were reset, src encodes the original document again.
C25_SrcShowsCurrentColours ==
    Settled => app.fileData.src = CurrentDocument(app)

\* C26: after a colour update made while no drag is in progress the chain
\* update, effect, updateSrcFromJson, setFileData, render ends: the effect
\* is not triggered again by the updateSrcFromJson its own setFileData
\* renewed, so updateSrcFromJson is invoked once for the edit.
C26_NoRetrigger ==
    app.hook # "none" => app.invocations <= 1

\* a step that runs the effects of a render
EffectsRun ==
    /\ app.pending \/ app.due
    /\ call'.pc \in {"effects", "updateSrcFromJson"}

\* C27: while isSliderDragging is true updateSrcFromJson is never invoked
\* and a colour that differs only marks an update as pending;
\* when the drag ends with a colour that differs from its original, the
\* effects of that render invoke updateSrcFromJson with the document of the
\* latest colours and clear hasPendingUpdate.
C27_DragDefersUpdate ==
    [][/\ (app.hook # "none" /\ app.isSliderDragging /\ EffectsRun)
             => /\ call'.pc = "effects" /\ app'.fileData = app.fileData
                /\ DifferingOf(app) # {} => app'.hasPendingUpdate
       /\ (app.hook # "none" /\ call.pc = "sliderDragEnd" /\ DifferingOf(app) # {}
              /\ EffectsRun)
             => /\ call'.pc = "updateSrcFromJson"
                /\ call'.out = CurrentDocument(app)
                /\ app'.fileData.src = CurrentDocument(app)
                /\ ~app'.hasPendingUpdate]_vars
\* a colour changed during a drag is shown by the effects that follow the
\* end of the drag, which find hasPendingUpdate set and clear it
C27_Witness ==
    /\ app.hook # "none"
    /\ call.pc = "updateSrcFromJson"
    /\ call.after = "sliderDragEnd" /\ call.wasPending
    /\ ~app.hasPendingUpdate /\ ~app.isSliderDragging
    /\ app.fileData.src = call.out
    /\ app.fileData.src # app.fileData.file

\* what an edit must leave alone: the ids, targets and originals of the
\* entities and, of the groups, their ids, kinds and original colours
Skeleton(a) ==
    <<[i \in 1..Len(EntitiesOf(a)) |->
          <<EntitiesOf(a)[i].id, EntitiesOf(a)[i].targets, EntitiesOf(a)[i].original,
            EntitiesOf(a)[i].type>>],
      [g \in 1..Len(a.colorGroups) |->
          <<a.colorGroups[g].id, a.colorGroups[g].type, a.colorGroups[g].originalColor,
            Len(a.colorGroups[g].layers)>>]>>
\* a step within one loaded file: an update, a reset, a toggle, a drag
\* event or the effects after them
WithinFile ==
    /\ AppMounted /\ app.fileData.loaded /\ ~app.pending
    /\ call'.pc \notin {"handleFile", "clearFile"}

\* C28: applying edits never triggers a rescan: within one loaded file
\* updateSrcFromJson leaves fileData.rawJson and the document it refers to
\* unchanged, the entities and groups keep their ids, targets and original
\* colours, and every document passed to updateSrcFromJson is the loaded
\* document with the current colours applied, not a document made from an
\* earlier modified one.
C28_NoRescan ==
    [][WithinFile =>
          /\ app'.fileData.rawJson = app.fileData.rawJson
          /\ app'.fileData.file = app.fileData.file
          /\ app'.lottieJson = app.lottieJson
          /\ app'.originalJson = app.originalJson
          /\ ~app'.pending
          /\ Skeleton(app') = Skeleton(app)
          /\ app.lottieJson # Null =>
                Stringify(heap', app'.lottieJson) = app.fileData.file
          /\ call'.pc = "updateSrcFromJson" =>
                /\ call'.out = CurrentDocument(app)
                /\ app'.fileData.src = call'.out]_vars
\* after a reset, the document shown has the original value where an
\* entity is back at its original and the current colour where one differs
C28_Witness ==
    /\ app.hook # "none"
    /\ call.pc = "updateSrcFromJson"
    /\ call.after \in {"resetColor", "resetLayerColor", "resetGroupColor"}
    /\ app.fileData.src = call.out
    /\ \E i \in DifferingOf(app) :
          JAt(call.out, EntitiesOf(app)[i].targets[1].path, 1)
              # JAt(app.fileData.file, EntitiesOf(app)[i].targets[1].path, 1)
    /\ \E j \in 1..Len(EntitiesOf(app)) :
          /\ j \notin DifferingOf(app)
          /\ JAt(call.out, EntitiesOf(app)[j].targets[1].path, 1)
                = JAt(app.fileData.file, EntitiesOf(app)[j].targets[1].path, 1)

====
